---- MODULE Spec2Model ----
(***************************************************************************)
(* A model of python-icns: the Kaitai Struct reader of ICNS icon families  *)
(* (icns/_kaitai_struct/icns.py), the object API built on it (icns/api.py) *)
(* and the type registry (icns/element_types.py).                          *)
(*                                                                         *)
(* Bytes are integers 0..255, byte strings are sequences of bytes, a type  *)
(* code is a 4-byte sequence.  A KaitaiStream is a pair (buf, pos); every  *)
(* read operator returns a record with the error raised ("none" when the   *)
(* read returns), the value read and the position the stream is left at.   *)
(* Errors carry the name of the Python exception the code raises.          *)
(***************************************************************************)
EXTENDS Integers, Sequences, FiniteSets, TLC

VARIABLES
    stream,     \* the bytes of the input stream handed to IconFamily.from_stream
    pos,        \* the position of the input stream
    status,     \* "new" before from_stream, then "ok" or the exception it raised
    elements,   \* element path -> the element object (KS struct and API object)
    families,   \* element path -> the IconFamily resolved from that element
    last,       \* the outcome of the last API access
    nobj,       \* the number of payload objects the API has constructed
    rle,        \* the ICNSStylePackbits object of the decompression specification
    image,      \* the IconRGB or IconARGB object of the image specification
    registry,   \* the maps of KnownElementType and KnownIconType
    threads     \* the threads that access parsed of one element: where each is
                \* in the code, its local variables and what it returned

vars == <<stream, pos, status, elements, families, last, nobj, rle, image, registry, threads>>

(***************************************************************************)
(* Bounds of the model.                                                    *)
(***************************************************************************)
\* the most children a generated top-level family body holds
MaxChildren == 2
\* the longest generated body of an element of unknown type
MaxBody == 2
\* the most bytes that follow the top-level element in a generated stream
MaxTrail == 2
\* the most chunks of a generated compressed input
MaxChunks == 3
\* the most accesses to uncompressed of one ICNSStylePackbits object
MaxAccesses == 2
\* the longest side, in pixels, of a generated image
MaxSide == 2

\* no thread has been started
NoThreads == [path |-> <<>>, overlap |-> FALSE, t |-> <<>>]

NoError == "none"

(***************************************************************************)
(* KaitaiStream primitives, as the generated reader uses them.             *)
(***************************************************************************)
\* a read_bytes that returns the bytes there are when fewer than n remain
read_bytes_short(buf, p, n) ==
    IF n < 0 THEN [err |-> "ValueError", val |-> <<>>, pos |-> p]
    ELSE IF Len(buf) - p < n
         THEN [err |-> NoError, val |-> SubSeq(buf, p + 1, Len(buf)), pos |-> Len(buf)]
         ELSE [err |-> NoError, val |-> SubSeq(buf, p + 1, p + n), pos |-> p + n]

\* a read_bytes that hands a negative count to the file's read, which then
\* reads to the end
read_bytes_unchecked(buf, p, n) ==
    IF n < 0 \/ Len(buf) - p = n
    THEN [err |-> NoError, val |-> SubSeq(buf, p + 1, Len(buf)), pos |-> Len(buf)]
    ELSE IF Len(buf) - p < n
         THEN [err |-> "EOFError", val |-> <<>>, pos |-> Len(buf)]
         ELSE [err |-> NoError, val |-> SubSeq(buf, p + 1, p + n), pos |-> p + n]

\* read_bytes(n): a negative n raises ValueError before anything is read; a
\* short read has consumed the rest of the buffer when EOFError is raised.
read_bytes(buf, p, n) ==
    IF n < 0 THEN [err |-> "ValueError", val |-> <<>>, pos |-> p]
    ELSE IF Len(buf) - p < n
         THEN [err |-> "EOFError", val |-> <<>>, pos |-> Len(buf)]
         ELSE [err |-> NoError, val |-> SubSeq(buf, p + 1, p + n), pos |-> p + n]

read_bytes_full(buf, p) ==
    [err |-> NoError, val |-> SubSeq(buf, p + 1, Len(buf)), pos |-> Len(buf)]

is_eof(buf, p) == p >= Len(buf)

\* struct.unpack('>I'): the 4 bytes as a big-endian unsigned integer
unpack_u4be(b) == b[1] * 16777216 + b[2] * 65536 + b[3] * 256 + b[4]

\* the result of read_u4be, given the result r of its read_bytes(4)
u4be_of(r) ==
    IF r.err # NoError THEN [err |-> r.err, val |-> 0, pos |-> r.pos]
    ELSE [err |-> NoError, val |-> unpack_u4be(r.val), pos |-> r.pos]

read_u4be(buf, p) == u4be_of(read_bytes(buf, p, 4))

\* the result of read_u1, given the result r of its read_bytes(1)
u1_of(r) ==
    IF r.err # NoError THEN [err |-> r.err, val |-> 0, pos |-> r.pos]
    ELSE [err |-> NoError, val |-> r.val[1], pos |-> r.pos]

read_u1(buf, p) == u1_of(read_bytes(buf, p, 1))

(***************************************************************************)
(* Icns.IconFamilyElement.Header and Icns.IconFamilyElement                *)
(***************************************************************************)
\* the enum value of 'tile' in the place of main_family
tile_variant_family == <<29801, 27749>>

\* Header.Type.main_family, the enum value 1768124019 of 'icns', as its
\* 16-bit halves (1768124019 = 26979 * 65536 + 28275)
main_family == <<26979, 28275>>

\* Header.TypeCode.as_enum: the type code read as a big-endian unsigned
\* integer, kept as its 16-bit halves
as_enum(type) == <<type[1] * 256 + type[2], type[3] * 256 + type[4]>>

\* the header read, given the results t and l of reading its two fields
Header_of(t, l) ==
    IF t.err # NoError
    THEN [err |-> t.err, type |-> <<>>, len_element |-> 0, pos |-> t.pos]
    ELSE IF l.err # NoError
    THEN [err |-> l.err, type |-> t.val, len_element |-> 0, pos |-> l.pos]
    ELSE [err |-> NoError, type |-> t.val, len_element |-> l.val, pos |-> l.pos]

Header_len(buf, t) == Header_of(t, read_u4be(buf, t.pos))

\* Header._read: the 4 bytes of the type code, then the element length
Header_read(buf, p) == Header_len(buf, read_bytes(buf, p, 4))
\* a len_data that takes the declared length for the length of the body
len_data_whole(len_element) == len_element

\* Header.len_data: the length of the whole element minus the header's
len_data(len_element) == len_element - 8

\* the element read, given the results h and d of reading header and data
Element_of(h, d) ==
    IF h.err # NoError
    THEN [err |-> h.err, type |-> h.type, len_element |-> 0, data |-> <<>>, pos |-> h.pos]
    ELSE IF d.err # NoError
    THEN [err |-> d.err, type |-> h.type, len_element |-> h.len_element,
          data |-> <<>>, pos |-> d.pos]
    ELSE [err |-> NoError, type |-> h.type, len_element |-> h.len_element,
          data |-> d.val, pos |-> d.pos]

\* an element whose body is read with the read that returns short
Element_data_short(buf, h) ==
    Element_of(h, read_bytes_short(buf, h.pos, len_data(h.len_element)))

Element_data(buf, h) == Element_of(h, read_bytes(buf, h.pos, len_data(h.len_element)))

\* IconFamilyElement._read: the header, then len_data bytes kept as the
\* element's own stream (data_with_io), which BytesWithIo reads to its end
IconFamilyElement_read(buf, p) == Element_data(buf, Header_read(buf, p))

\* the struct of a read element, as IconFamilyData.elements keeps it
ElementStruct(e) == [type |-> e.type, len_element |-> e.len_element, data |-> e.data]

\* IconFamilyData._read: elements are read until the stream is at its end
RECURSIVE IconFamilyData_loop(_, _, _)
RECURSIVE IconFamilyData_step(_, _, _)
IconFamilyData_loop(buf, p, acc) ==
    IF is_eof(buf, p) THEN [err |-> NoError, elements |-> acc, pos |-> p]
    ELSE IconFamilyData_step(buf, acc, IconFamilyElement_read(buf, p))
\* a loop that ends at the first child that cannot be read and keeps the rest
IconFamilyData_step_lenient(buf, acc, e) ==
    IF e.err # NoError THEN [err |-> NoError, elements |-> acc, pos |-> e.pos]
    ELSE IconFamilyData_loop(buf, e.pos, Append(acc, ElementStruct(e)))

IconFamilyData_step(buf, acc, e) ==
    IF e.err # NoError THEN [err |-> e.err, elements |-> acc, pos |-> e.pos]
    ELSE IconFamilyData_loop(buf, e.pos, Append(acc, ElementStruct(e)))

IconFamilyData_read(buf, p) == IconFamilyData_loop(buf, p, <<>>)

\* TableOfContentsData._read: headers are read until the stream is at its end
RECURSIVE TableOfContentsData_loop(_, _, _)
RECURSIVE TableOfContentsData_step(_, _, _)
TableOfContentsData_loop(buf, p, acc) ==
    IF is_eof(buf, p) THEN [err |-> NoError, element_headers |-> acc, pos |-> p]
    ELSE TableOfContentsData_step(buf, acc, Header_read(buf, p))

TableOfContentsData_step(buf, acc, h) ==
    IF h.err # NoError THEN [err |-> h.err, element_headers |-> acc, pos |-> h.pos]
    ELSE TableOfContentsData_loop(buf, h.pos,
             Append(acc, [type |-> h.type, len_element |-> h.len_element]))

TableOfContentsData_read(buf, p) == TableOfContentsData_loop(buf, p, <<>>)

(***************************************************************************)
(* The type registry (element_types.py): the entries in the order in which *)
(* the module registers them.  icon is TRUE for a KnownIconType.           *)
(***************************************************************************)
NoResolution == <<0, 0, 0>>

KnownTypes == <<
    [typecode |-> <<105, 99, 110, 115>>, data_type |-> "icon_family", icon |-> FALSE, resolution |-> NoResolution],
    [typecode |-> <<116, 105, 108, 101>>, data_type |-> "icon_family", icon |-> FALSE, resolution |-> NoResolution],
    [typecode |-> <<111, 118, 101, 114>>, data_type |-> "icon_family", icon |-> FALSE, resolution |-> NoResolution],
    [typecode |-> <<100, 114, 111, 112>>, data_type |-> "icon_family", icon |-> FALSE, resolution |-> NoResolution],
    [typecode |-> <<111, 112, 101, 110>>, data_type |-> "icon_family", icon |-> FALSE, resolution |-> NoResolution],
    [typecode |-> <<111, 100, 114, 112>>, data_type |-> "icon_family", icon |-> FALSE, resolution |-> NoResolution],
    [typecode |-> <<115, 98, 112, 112>>, data_type |-> "icon_family", icon |-> FALSE, resolution |-> NoResolution],
    [typecode |-> <<115, 98, 116, 112>>, data_type |-> "icon_family", icon |-> FALSE, resolution |-> NoResolution],
    [typecode |-> <<115, 108, 99, 116>>, data_type |-> "icon_family", icon |-> FALSE, resolution |-> NoResolution],
    [typecode |-> <<253, 217, 47, 168>>, data_type |-> "icon_family", icon |-> FALSE, resolution |-> NoResolution],
    [typecode |-> <<84, 79, 67, 32>>, data_type |-> "table_of_contents", icon |-> FALSE, resolution |-> NoResolution],
    [typecode |-> <<105, 99, 110, 86>>, data_type |-> "table_of_contents", icon |-> FALSE, resolution |-> NoResolution],
    [typecode |-> <<105, 110, 102, 111>>, data_type |-> "info_dictionary", icon |-> FALSE, resolution |-> NoResolution],
    [typecode |-> <<105, 99, 109, 35>>, data_type |-> "icon_1_bit_with_mask", icon |-> TRUE, resolution |-> <<16, 12, 1>>],
    [typecode |-> <<105, 99, 109, 52>>, data_type |-> "icon_4_bit", icon |-> TRUE, resolution |-> <<16, 12, 1>>],
    [typecode |-> <<105, 99, 109, 56>>, data_type |-> "icon_8_bit", icon |-> TRUE, resolution |-> <<16, 12, 1>>],
    [typecode |-> <<105, 99, 115, 35>>, data_type |-> "icon_1_bit_with_mask", icon |-> TRUE, resolution |-> <<16, 16, 1>>],
    [typecode |-> <<105, 99, 115, 52>>, data_type |-> "icon_4_bit", icon |-> TRUE, resolution |-> <<16, 16, 1>>],
    [typecode |-> <<105, 99, 115, 56>>, data_type |-> "icon_8_bit", icon |-> TRUE, resolution |-> <<16, 16, 1>>],
    [typecode |-> <<105, 115, 51, 50>>, data_type |-> "icon_rgb", icon |-> TRUE, resolution |-> <<16, 16, 1>>],
    [typecode |-> <<115, 56, 109, 107>>, data_type |-> "icon_8_bit_mask", icon |-> TRUE, resolution |-> <<16, 16, 1>>],
    [typecode |-> <<73, 67, 78, 35>>, data_type |-> "icon_1_bit_with_mask", icon |-> TRUE, resolution |-> <<32, 32, 1>>],
    [typecode |-> <<105, 99, 108, 52>>, data_type |-> "icon_4_bit", icon |-> TRUE, resolution |-> <<32, 32, 1>>],
    [typecode |-> <<105, 99, 108, 56>>, data_type |-> "icon_8_bit", icon |-> TRUE, resolution |-> <<32, 32, 1>>],
    [typecode |-> <<105, 108, 51, 50>>, data_type |-> "icon_rgb", icon |-> TRUE, resolution |-> <<32, 32, 1>>],
    [typecode |-> <<108, 56, 109, 107>>, data_type |-> "icon_8_bit_mask", icon |-> TRUE, resolution |-> <<32, 32, 1>>],
    [typecode |-> <<105, 99, 104, 35>>, data_type |-> "icon_1_bit_with_mask", icon |-> TRUE, resolution |-> <<48, 48, 1>>],
    [typecode |-> <<105, 99, 104, 52>>, data_type |-> "icon_4_bit", icon |-> TRUE, resolution |-> <<48, 48, 1>>],
    [typecode |-> <<105, 99, 104, 56>>, data_type |-> "icon_8_bit", icon |-> TRUE, resolution |-> <<48, 48, 1>>],
    [typecode |-> <<105, 104, 51, 50>>, data_type |-> "icon_rgb", icon |-> TRUE, resolution |-> <<48, 48, 1>>],
    [typecode |-> <<104, 56, 109, 107>>, data_type |-> "icon_8_bit_mask", icon |-> TRUE, resolution |-> <<48, 48, 1>>],
    [typecode |-> <<105, 116, 51, 50>>, data_type |-> "icon_rgb", icon |-> TRUE, resolution |-> <<128, 128, 1>>],
    [typecode |-> <<116, 56, 109, 107>>, data_type |-> "icon_8_bit_mask", icon |-> TRUE, resolution |-> <<128, 128, 1>>],
    [typecode |-> <<105, 99, 48, 52>>, data_type |-> "icon_argb", icon |-> TRUE, resolution |-> <<16, 16, 1>>],
    [typecode |-> <<105, 99, 115, 98>>, data_type |-> "icon_argb", icon |-> TRUE, resolution |-> <<18, 18, 1>>],
    [typecode |-> <<105, 99, 48, 53>>, data_type |-> "icon_argb", icon |-> TRUE, resolution |-> <<32, 32, 1>>],
    [typecode |-> <<105, 99, 112, 52>>, data_type |-> "icon_png_jp2_rgb", icon |-> TRUE, resolution |-> <<16, 16, 1>>],
    [typecode |-> <<105, 99, 112, 53>>, data_type |-> "icon_png_jp2_rgb", icon |-> TRUE, resolution |-> <<32, 32, 1>>],
    [typecode |-> <<105, 99, 112, 54>>, data_type |-> "icon_png_jp2", icon |-> TRUE, resolution |-> <<64, 64, 1>>],
    [typecode |-> <<105, 99, 48, 55>>, data_type |-> "icon_png_jp2", icon |-> TRUE, resolution |-> <<128, 128, 1>>],
    [typecode |-> <<105, 99, 48, 56>>, data_type |-> "icon_png_jp2", icon |-> TRUE, resolution |-> <<256, 256, 1>>],
    [typecode |-> <<105, 99, 48, 57>>, data_type |-> "icon_png_jp2", icon |-> TRUE, resolution |-> <<512, 512, 1>>],
    [typecode |-> <<105, 99, 49, 49>>, data_type |-> "icon_png_jp2", icon |-> TRUE, resolution |-> <<16, 16, 2>>],
    [typecode |-> <<105, 99, 115, 66>>, data_type |-> "icon_png_jp2", icon |-> TRUE, resolution |-> <<18, 18, 2>>],
    [typecode |-> <<105, 99, 49, 50>>, data_type |-> "icon_png_jp2", icon |-> TRUE, resolution |-> <<32, 32, 2>>],
    [typecode |-> <<105, 99, 49, 51>>, data_type |-> "icon_png_jp2", icon |-> TRUE, resolution |-> <<128, 128, 2>>],
    [typecode |-> <<105, 99, 49, 52>>, data_type |-> "icon_png_jp2", icon |-> TRUE, resolution |-> <<256, 256, 2>>],
    [typecode |-> <<105, 99, 49, 48>>, data_type |-> "icon_png_jp2", icon |-> TRUE, resolution |-> <<512, 512, 2>>]

>>

\* the value of by_typecode.get(type) for a type code that is not registered
None == [typecode |-> <<>>, data_type |-> "None", icon |-> FALSE, resolution |-> NoResolution]

\* KnownElementType.by_typecode.get(type)
by_typecode_get(type) ==
    IF \E i \in 1..Len(KnownTypes) : KnownTypes[i].typecode = type
    THEN KnownTypes[CHOOSE i \in 1..Len(KnownTypes) : KnownTypes[i].typecode = type]
    ELSE None

\* the type codes the registry knows
RegisteredTypeCodes == {KnownTypes[i].typecode : i \in 1..Len(KnownTypes)}

(***************************************************************************)
(* Registration (element_types.py): the three class-level maps, and the    *)
(* number of the module's own registrations that have run.                 *)
(***************************************************************************)
\* d[k] = v on a dict
dict_setitem(d, k, v) == [x \in (DOMAIN d) \cup {k} |-> IF x = k THEN v ELSE d[x]]

\* by_data_type[k].add(v) on a defaultdict(set)
defaultdict_add(d, k, v) ==
    [x \in (DOMAIN d) \cup {k} |->
        IF x = k THEN (IF k \in DOMAIN d THEN d[k] ELSE {}) \cup {v} ELSE d[x]]

NoRegistry ==
    [by_typecode |-> <<>>, by_data_type |-> <<>>, by_data_type_and_resolution |-> <<>>, n |-> 0]

\* a constructor returns, or raises err, and leaves the maps reg
Constructed(err, reg) == [err |-> err, reg |-> reg]

\* KnownElementType.__attrs_post_init__
KnownElementType_post_init(reg, self) ==
    IF self.typecode \in DOMAIN reg.by_typecode THEN Constructed("AssertionError", reg)
    ELSE Constructed(NoError,
             [reg EXCEPT !.by_typecode = dict_setitem(@, self.typecode, self),
                         !.by_data_type = defaultdict_add(@, self.data_type, self)])

\* KnownIconType.__attrs_post_init__, super being the outcome of
\* super().__attrs_post_init__()
KnownIconType_post_init(reg, self, super) ==
    IF super.err # NoError THEN super
    ELSE IF <<self.data_type, self.resolution>>
                \in DOMAIN super.reg.by_data_type_and_resolution
    THEN Constructed("AssertionError", super.reg)
    ELSE Constructed(NoError,
             [super.reg EXCEPT !.by_data_type_and_resolution =
                 dict_setitem(@, <<self.data_type, self.resolution>>, self)])

\* the constructor of KnownIconType (icon) or of KnownElementType
attrs_post_init(reg, self) ==
    IF self.icon
    THEN KnownIconType_post_init(reg, self, KnownElementType_post_init(reg, self))
    ELSE KnownElementType_post_init(reg, self)

\* the registry once the module is imported: every registration of the
\* module body has run, none has raised
Imported ==
    [by_typecode |-> [t \in RegisteredTypeCodes |-> by_typecode_get(t)],
     by_data_type |->
         [dt \in {KnownTypes[i].data_type : i \in 1..Len(KnownTypes)} |->
             {KnownTypes[i] : i \in {j \in 1..Len(KnownTypes) : KnownTypes[j].data_type = dt}}],
     by_data_type_and_resolution |->
         [k \in {<<KnownTypes[i].data_type, KnownTypes[i].resolution>> :
                    i \in {j \in 1..Len(KnownTypes) : KnownTypes[j].icon}} |->
             KnownTypes[CHOOSE i \in 1..Len(KnownTypes) :
                 /\ KnownTypes[i].icon
                 /\ <<KnownTypes[i].data_type, KnownTypes[i].resolution>> = k]],
     n |-> Len(KnownTypes)]

\* a constructor call has ended with the outcome c
RegisteredAs(op, self, c) ==
    /\ last' = [op |-> op, path |-> <<>>, err |-> c.err, value |-> self]
    /\ UNCHANGED <<threads, stream, pos, status, elements, families, nobj, rle, image>>

\* the next registration of the module body: when it raises, the import
\* ends there
ModuleRegistration ==
    /\ registry.n < Len(KnownTypes)
    /\ last.err = NoError
    /\ registry' = [attrs_post_init(registry, KnownTypes[registry.n + 1]).reg
                       EXCEPT !.n = registry.n + 1]
    /\ RegisteredAs("module", KnownTypes[registry.n + 1],
                    attrs_post_init(registry, KnownTypes[registry.n + 1]))

\* KnownElementType(typecode, data_type) or KnownIconType(typecode,
\* data_type, resolution), called once the module is imported
Register(self) ==
    /\ registry.n = Len(KnownTypes)
    /\ registry' = attrs_post_init(registry, self).reg
    /\ RegisteredAs(IF self.icon THEN "KnownIconType" ELSE "KnownElementType", self,
                    attrs_post_init(registry, self))

(***************************************************************************)
(* The switch of IconFamilyElement.data_parsed: the enum value of the type  *)
(* code selects the struct class and its width/height (a, b) or point      *)
(* width/point height/scale (a, b, c) arguments.  An enum value v is kept  *)
(* as its 16-bit halves <<v \div 65536, v % 65536>>, as TLC's integers    *)
(* end at 2^31 - 1 and 0xfdd92fa8 lies beyond.                             *)
(***************************************************************************)
DataParsedCases == {
    [on |-> <<26979, 26676>>, cls |-> "IconX4Data", a |-> 48, b |-> 48, c |-> 0],
    [on |-> <<26979, 27960>>, cls |-> "IconX8Data", a |-> 16, b |-> 12, c |-> 0],
    [on |-> <<29752, 28011>>, cls |-> "IconX8MaskData", a |-> 128, b |-> 128, c |-> 0],
    [on |-> <<18755, 20003>>, cls |-> "IconX1AndMaskData", a |-> 32, b |-> 32, c |-> 0],
    [on |-> <<26680, 28011>>, cls |-> "IconX8MaskData", a |-> 48, b |-> 48, c |-> 0],
    [on |-> <<26984, 13106>>, cls |-> "IconRgbData", a |-> 48, b |-> 48, c |-> 0],
    [on |-> <<26979, 27939>>, cls |-> "IconX1AndMaskData", a |-> 16, b |-> 12, c |-> 0],
    [on |-> <<21583, 17184>>, cls |-> "TableOfContentsData", a |-> 0, b |-> 0, c |-> 0],
    [on |-> <<26979, 12596>>, cls |-> "IconPngJp2Data", a |-> 256, b |-> 256, c |-> 2],
    [on |-> <<26979, 12593>>, cls |-> "IconPngJp2Data", a |-> 16, b |-> 16, c |-> 2],
    [on |-> <<26979, 12341>>, cls |-> "IconArgbData", a |-> 32, b |-> 32, c |-> 0],
    [on |-> <<26979, 29475>>, cls |-> "IconX1AndMaskData", a |-> 16, b |-> 16, c |-> 0],
    [on |-> <<29548, 25460>>, cls |-> "IconFamilyData", a |-> 0, b |-> 0, c |-> 0],
    [on |-> <<26979, 12343>>, cls |-> "IconPngJp2Data", a |-> 128, b |-> 128, c |-> 1],
    [on |-> <<26979, 29506>>, cls |-> "IconPngJp2Data", a |-> 18, b |-> 18, c |-> 2],
    [on |-> <<26979, 12345>>, cls |-> "IconPngJp2Data", a |-> 512, b |-> 512, c |-> 1],
    [on |-> <<26995, 13106>>, cls |-> "IconRgbData", a |-> 16, b |-> 16, c |-> 0],
    [on |-> <<26979, 27956>>, cls |-> "IconX4Data", a |-> 16, b |-> 12, c |-> 0],
    [on |-> <<29538, 28784>>, cls |-> "IconFamilyData", a |-> 0, b |-> 0, c |-> 0],
    [on |-> <<28528, 25966>>, cls |-> "IconFamilyData", a |-> 0, b |-> 0, c |-> 0],
    [on |-> <<26979, 28725>>, cls |-> "IconPngJp2Data", a |-> 32, b |-> 32, c |-> 1],
    [on |-> <<29538, 29808>>, cls |-> "IconFamilyData", a |-> 0, b |-> 0, c |-> 0],
    [on |-> <<26979, 12344>>, cls |-> "IconPngJp2Data", a |-> 256, b |-> 256, c |-> 1],
    [on |-> <<26979, 27700>>, cls |-> "IconX4Data", a |-> 32, b |-> 32, c |-> 0],
    [on |-> <<26990, 26223>>, cls |-> "InfoDictionaryData", a |-> 0, b |-> 0, c |-> 0],
    [on |-> <<26979, 29492>>, cls |-> "IconX4Data", a |-> 16, b |-> 16, c |-> 0],
    [on |-> <<26979, 12595>>, cls |-> "IconPngJp2Data", a |-> 128, b |-> 128, c |-> 2],
    [on |-> <<26979, 28724>>, cls |-> "IconPngJp2Data", a |-> 16, b |-> 16, c |-> 1],
    [on |-> <<26979, 26680>>, cls |-> "IconX8Data", a |-> 48, b |-> 48, c |-> 0],
    [on |-> <<26979, 29496>>, cls |-> "IconX8Data", a |-> 16, b |-> 16, c |-> 0],
    [on |-> <<26988, 13106>>, cls |-> "IconRgbData", a |-> 32, b |-> 32, c |-> 0],
    [on |-> <<26979, 27704>>, cls |-> "IconX8Data", a |-> 32, b |-> 32, c |-> 0],
    [on |-> <<28534, 25970>>, cls |-> "IconFamilyData", a |-> 0, b |-> 0, c |-> 0],
    [on |-> <<29496, 28011>>, cls |-> "IconX8MaskData", a |-> 16, b |-> 16, c |-> 0],
    [on |-> <<26979, 28726>>, cls |-> "IconPngJp2Data", a |-> 64, b |-> 64, c |-> 1],
    [on |-> <<26979, 29538>>, cls |-> "IconArgbData", a |-> 18, b |-> 18, c |-> 0],
    [on |-> <<27704, 28011>>, cls |-> "IconX8MaskData", a |-> 32, b |-> 32, c |-> 0],
    [on |-> <<26979, 12340>>, cls |-> "IconArgbData", a |-> 16, b |-> 16, c |-> 0],
    [on |-> <<26979, 12592>>, cls |-> "IconPngJp2Data", a |-> 512, b |-> 512, c |-> 2],
    [on |-> <<28516, 29296>>, cls |-> "IconFamilyData", a |-> 0, b |-> 0, c |-> 0],
    [on |-> <<26996, 13106>>, cls |-> "IconRgbZeroPrefixedData", a |-> 128, b |-> 128, c |-> 0],
    [on |-> <<26979, 26659>>, cls |-> "IconX1AndMaskData", a |-> 48, b |-> 48, c |-> 0],
    [on |-> <<26979, 28246>>, cls |-> "IconComposerVersionData", a |-> 0, b |-> 0, c |-> 0],
    [on |-> <<25714, 28528>>, cls |-> "IconFamilyData", a |-> 0, b |-> 0, c |-> 0],
    [on |-> <<64985, 12200>>, cls |-> "IconFamilyData", a |-> 0, b |-> 0, c |-> 0],
    [on |-> <<26979, 12594>>, cls |-> "IconPngJp2Data", a |-> 32, b |-> 32, c |-> 2],
    [on |-> <<26979, 28275>>, cls |-> "IconFamilyData", a |-> 0, b |-> 0, c |-> 0],
    [on |-> <<29801, 27749>>, cls |-> "IconFamilyData", a |-> 0, b |-> 0, c |-> 0]

}

\* the else branch of the switch: the data as a plain BytesWithIo
DefaultCase == [on |-> <<0, 0>>, cls |-> "BytesWithIo", a |-> 0, b |-> 0, c |-> 0]

data_parsed_case(on) ==
    IF \E k \in DataParsedCases : k.on = on
    THEN CHOOSE k \in DataParsedCases : k.on = on
    ELSE DefaultCase

\* the value of an attribute that has not been set
Unset == [cls |-> "unset"]

\* the outcome of a struct constructor: the error it raised, the position it
\* left the stream at and the struct it built
Built(r, struct) ==
    [err |-> r.err, pos |-> r.pos, struct |-> IF r.err = NoError THEN struct ELSE Unset]

\* IcnsStylePackbits._read: the compressed data is the rest of the stream
Packbits_read(buf, p) == read_bytes_full(buf, p)

\* an IconArgbData that skips 4 bytes without comparing them
IconArgbData_of_unchecked(k, s, d) ==
    IF s.err # NoError THEN Built(s, Unset)
    ELSE Built(d, [cls |-> "IconArgbData", width |-> k.a, height |-> k.b,
                   compressed_data |-> d.val])

IconArgbData_of(k, s, d) ==
    IF s.err # NoError THEN Built(s, Unset)
    ELSE IF s.val # <<65, 82, 71, 66>>
    THEN Built([err |-> "ValidationNotEqualError", pos |-> s.pos], Unset)
    ELSE Built(d, [cls |-> "IconArgbData", width |-> k.a, height |-> k.b,
                   compressed_data |-> d.val])

IconArgbData_data(k, buf, s) == IconArgbData_of(k, s, Packbits_read(buf, s.pos))

\* IconArgbData._read: the 'ARGB' signature, then the compressed data
IconArgbData_read(k, buf, p) == IconArgbData_data(k, buf, read_bytes(buf, p, 4))

IconRgbData_of(k, d) ==
    Built(d, [cls |-> "IconRgbData", width |-> k.a, height |-> k.b,
              compressed_data |-> d.val])

\* IconRgbData._read: the compressed data
IconRgbData_read(k, buf, p) == IconRgbData_of(k, Packbits_read(buf, p))

IconRgbZeroPrefixedData_of(k, z, i) ==
    IF z.err # NoError THEN Built(z, Unset)
    ELSE IF z.val # <<0, 0, 0, 0>>
    THEN Built([err |-> "ValidationNotEqualError", pos |-> z.pos], Unset)
    ELSE Built(i, [cls |-> "IconRgbZeroPrefixedData", width |-> k.a, height |-> k.b,
                   icon |-> i.struct])

IconRgbZeroPrefixedData_icon(k, buf, z) ==
    IconRgbZeroPrefixedData_of(k, z, IconRgbData_read(k, buf, z.pos))

\* IconRgbZeroPrefixedData._read: 4 zero bytes, then an IconRgbData
IconRgbZeroPrefixedData_read(k, buf, p) ==
    IconRgbZeroPrefixedData_icon(k, buf, read_bytes(buf, p, 4))

IconX1AndMaskData_of(k, i, m) ==
    IF i.err # NoError THEN Built(i, Unset)
    ELSE Built(m, [cls |-> "IconX1AndMaskData", width |-> k.a, height |-> k.b,
                   icon |-> i.val, mask |-> m.val])

IconX1AndMaskData_mask(k, buf, i) ==
    IconX1AndMaskData_of(k, i, read_bytes(buf, i.pos, (k.a * k.b) \div 8))

\* IconX1AndMaskData._read: the icon bits, then the mask bits
IconX1AndMaskData_read(k, buf, p) ==
    IconX1AndMaskData_mask(k, buf, read_bytes(buf, p, (k.a * k.b) \div 8))

\* an IconFamilyData that keeps the children read before the one that failed
IconFamilyData_of_partial(r) ==
    Built([r EXCEPT !.err = NoError], [cls |-> "IconFamilyData", elements |-> r.elements])

IconFamilyData_of(r) == Built(r, [cls |-> "IconFamilyData", elements |-> r.elements])

TableOfContentsData_of(r) ==
    Built(r, [cls |-> "TableOfContentsData", element_headers |-> r.element_headers])

\* IconComposerVersionData._read: read_f4be, the 4 bytes of a float
IconComposerVersionData_of(r) ==
    Built(r, [cls |-> "IconComposerVersionData", version |-> r.val])

\* InfoDictionaryData._read: read_bytes_full
InfoDictionaryData_of(r) ==
    Built(r, [cls |-> "InfoDictionaryData", archived_data |-> r.val])

\* IconX4Data._read, IconX8Data._read: the icon bytes
IconXData_of(k, r) ==
    Built(r, [cls |-> k.cls, width |-> k.a, height |-> k.b, icon |-> r.val])

\* IconX8MaskData._read: the mask bytes
IconX8MaskData_of(k, r) ==
    Built(r, [cls |-> "IconX8MaskData", width |-> k.a, height |-> k.b, mask |-> r.val])

\* IconPngJp2Data._read: read_bytes_full
IconPngJp2Data_of(k, r) ==
    Built(r, [cls |-> "IconPngJp2Data", point_width |-> k.a, point_height |-> k.b,
              scale |-> k.c, png_or_jp2_data |-> r.val])

\* bytes_with_io.BytesWithIo: the whole stream
BytesWithIo_of(r) == Built(r, [cls |-> "BytesWithIo", data |-> r.val])

\* the constructor that case k of the switch selects, run on the element's
\* own stream from position 0 (io.seek(0))
DataStructCase(k, buf) ==
    CASE k.cls = "IconFamilyData" -> IconFamilyData_of(IconFamilyData_read(buf, 0))
      [] k.cls = "TableOfContentsData" ->
           TableOfContentsData_of(TableOfContentsData_read(buf, 0))
      [] k.cls = "IconComposerVersionData" ->
           IconComposerVersionData_of(read_bytes(buf, 0, 4))
      [] k.cls = "InfoDictionaryData" -> InfoDictionaryData_of(read_bytes_full(buf, 0))
      [] k.cls = "IconX1AndMaskData" -> IconX1AndMaskData_read(k, buf, 0)
      [] k.cls = "IconX4Data" -> IconXData_of(k, read_bytes(buf, 0, (k.a * k.b) \div 2))
      [] k.cls = "IconX8Data" -> IconXData_of(k, read_bytes(buf, 0, k.a * k.b))
      [] k.cls = "IconX8MaskData" -> IconX8MaskData_of(k, read_bytes(buf, 0, k.a * k.b))
      [] k.cls = "IconRgbData" -> IconRgbData_read(k, buf, 0)
      [] k.cls = "IconRgbZeroPrefixedData" -> IconRgbZeroPrefixedData_read(k, buf, 0)
      [] k.cls = "IconArgbData" -> IconArgbData_read(k, buf, 0)
      [] k.cls = "IconPngJp2Data" -> IconPngJp2Data_of(k, read_bytes_full(buf, 0))
      [] OTHER -> BytesWithIo_of(read_bytes_full(buf, 0))

\* the switch of data_parsed on header.type.as_enum
DataStruct(type, buf) == DataStructCase(data_parsed_case(as_enum(type)), buf)

(***************************************************************************)
(* The object API (api.py).                                                *)
(***************************************************************************)
\* a path without its last type code: the path of the enclosing element
Front(p) == SubSeq(p, 1, Len(p) - 1)

\* dict.get(k): the value under k, None when d has no key k
dict_get(d, k) == IF k \in DOMAIN d THEN d[k] ELSE None

\* a lookup that enters the key it does not find, as dict.setdefault does
dict_after_setdefault(d, k) == IF k \in DOMAIN d THEN d ELSE d @@ (k :> None)

\* the dict d after d.get(k): get enters nothing
dict_after_get(d, k) == d

\* element_types.KnownElementType.by_typecode.get(type) in
\* IconFamilyElement.__init__: the class-level map is read as it is now
KnownElementType_by_typecode_get(type) == dict_get(registry.by_typecode, type)

\* the registry after the loop of IconFamily.from_ks has constructed an
\* IconFamilyElement of each of the structs
RECURSIVE registry_after_from_ks(_, _)
registry_after_from_ks(reg, structs) ==
    IF structs = <<>> THEN reg
    ELSE registry_after_from_ks(
             [reg EXCEPT !.by_typecode = dict_after_get(@, Head(structs).type)],
             Tail(structs))

\* IconFamilyElement.from_ks and __init__: the API element of a read struct.
\* io_pos is the position of the element's own stream (data_with_io._io),
\* which BytesWithIo has read to its end; m_data_parsed and parsed are the
\* caches of the struct's data_parsed and of the API element's parsed;
\* len_element is _struct.header.len_element; accesses counts the accesses
\* to parsed.
IconFamilyElement_from_ks(s) ==
    [type |-> s.type, data |-> s.data, len_element |-> s.len_element,
     known_type |-> KnownElementType_by_typecode_get(s.type),
     io_pos |-> Len(s.data), m_data_parsed |-> Unset, parsed |-> Unset,
     accesses |-> 0]
\* an assignment that moves a key that is already there to the end
OrderedDict_set_move_to_end(d, k, v) ==
    [keys |-> Append(SelectSeq(d.keys, LAMBDA x : x # k), k),
     vals |-> [x \in (DOMAIN d.vals) \cup {k} |-> IF x = k THEN v ELSE d.vals[x]]]

\* elements[element.type] = element on an OrderedDict, kept as the sequence of
\* its keys and the struct under each key: a new key goes last, a key that is
\* already there keeps its place and gets the new value
OrderedDict_set(d, k, v) ==
    [keys |-> IF \E i \in 1..Len(d.keys) : d.keys[i] = k THEN d.keys ELSE Append(d.keys, k),
     vals |-> [x \in (DOMAIN d.vals) \cup {k} |-> IF x = k THEN v ELSE d.vals[x]]]

\* the loop of IconFamily.from_ks over struct.elements
RECURSIVE IconFamily_from_ks_loop(_, _)
IconFamily_from_ks_loop(structs, d) ==
    IF structs = <<>> THEN d
    ELSE IconFamily_from_ks_loop(Tail(structs),
             OrderedDict_set(d, Head(structs).type, Head(structs)))

IconFamily_from_ks(struct) ==
    IconFamily_from_ks_loop(struct.elements, [keys |-> <<>>, vals |-> <<>>])

\* elements_by_resolution_and_type[res][dt] = the element under key: the
\* index maps a resolution to the map from data type to the element's key
Index_set(idx, res, dt, key, inner) ==
    [r \in (DOMAIN idx) \cup {res} |->
        IF r = res
        THEN [x \in (DOMAIN inner) \cup {dt} |-> IF x = dt THEN key ELSE inner[x]]
        ELSE idx[r]]

\* the body of the loop of IconFamily.__init__ for the element under key,
\* whose known_type is kt: only a KnownIconType is entered
Index_enter(idx, key, kt) ==
    IF ~kt.icon THEN idx
    ELSE Index_set(idx, kt.resolution, kt.data_type, key,
                   IF kt.resolution \in DOMAIN idx THEN idx[kt.resolution] ELSE <<>>)

\* the loop of IconFamily.__init__ over elements.values()
RECURSIVE IconFamily_init_loop(_, _, _)
IconFamily_init_loop(d, i, idx) ==
    IF i > Len(d.keys) THEN idx
    ELSE IconFamily_init_loop(d, i + 1,
             Index_enter(idx, d.keys[i],
                         KnownElementType_by_typecode_get(d.vals[d.keys[i]].type)))

\* the IconFamily object: the keys of elements in order, and the index
IconFamily_init(d) ==
    [elements |-> d.keys,
     elements_by_resolution_and_type |-> IconFamily_init_loop(d, 1, <<>>)]

\* the element objects of a family resolved from the element at path p
ChildElements(p, d) ==
    [q \in {Append(p, d.keys[i]) : i \in 1..Len(d.keys)} |->
        IconFamilyElement_from_ks(d.vals[q[Len(q)]])]

\* the isinstance chain of IconFamilyElement.parsed: the API object built
\* from the struct, Unset where no branch matches (an AssertionError)
ParsedFromStruct(s, id) ==
    CASE s.cls = "IconFamilyData" -> [cls |-> "IconFamily", obj |-> id]
      [] s.cls = "TableOfContentsData" ->
           [cls |-> "TableOfContents", obj |-> id, entries |-> s.element_headers]
      [] s.cls = "IconComposerVersionData" ->
           [cls |-> "IconComposerVersion", obj |-> id, version |-> s.version]
      [] s.cls = "InfoDictionaryData" ->
           [cls |-> "InfoDictionary", obj |-> id, archived_data |-> s.archived_data]
      [] s.cls = "IconX1AndMaskData" ->
           [cls |-> "Icon1BitAndMask", obj |-> id, resolution |-> <<s.width, s.height, 1>>,
            icon_data |-> s.icon, mask_data |-> s.mask]
      [] s.cls = "IconX4Data" ->
           [cls |-> "Icon4Bit", obj |-> id, resolution |-> <<s.width, s.height, 1>>,
            icon_data |-> s.icon]
      [] s.cls = "IconX8Data" ->
           [cls |-> "Icon8Bit", obj |-> id, resolution |-> <<s.width, s.height, 1>>,
            icon_data |-> s.icon]
      [] s.cls = "IconRgbData" ->
           [cls |-> "IconRGB", obj |-> id, resolution |-> <<s.width, s.height, 1>>,
            rgb_data |-> s.compressed_data]
      [] s.cls = "IconX8MaskData" ->
           [cls |-> "Icon8BitMask", obj |-> id, resolution |-> <<s.width, s.height, 1>>,
            mask_data |-> s.mask]
      [] s.cls = "IconRgbZeroPrefixedData" ->
           [cls |-> "IconRGB", obj |-> id, resolution |-> <<s.icon.width, s.icon.height, 1>>,
            rgb_data |-> s.icon.compressed_data]
      [] s.cls = "IconArgbData" ->
           [cls |-> "IconARGB", obj |-> id, resolution |-> <<s.width, s.height, 1>>,
            argb_data |-> s.compressed_data]
      [] s.cls = "IconPngJp2Data" ->
           [cls |-> "IconPNGOrJPEG2000", obj |-> id,
            resolution |-> <<s.point_width, s.point_height, s.scale>>,
            data |-> s.png_or_jp2_data]
      [] OTHER -> Unset

\* Icns.IconFamilyElement.data_parsed on the element object el, whose own
\* reader (self._io, the stream the element was read from) is at its end or
\* not; d is what the constructor selected by the switch does on the
\* element's stream.  A cached struct is returned as it is.  Otherwise the
\* constructor runs; when it raises, nothing is cached and the stream stays
\* where the constructor left it; when it returns, the struct is cached,
\* the stream is put back (io.seek(_pos)) and then self._io is required to
\* be at its end.
data_parsed_of(el, io_at_eof, d) ==
    IF el.m_data_parsed # Unset
    THEN [err |-> NoError, struct |-> el.m_data_parsed,
          io_pos |-> el.io_pos, m_data_parsed |-> el.m_data_parsed]
    ELSE IF d.err # NoError
    THEN [err |-> d.err, struct |-> Unset, io_pos |-> d.pos, m_data_parsed |-> Unset]
    ELSE IF ~io_at_eof
    THEN [err |-> "ValidationExprError(data_parsed)", struct |-> Unset,
          io_pos |-> el.io_pos, m_data_parsed |-> d.struct]
    ELSE [err |-> NoError, struct |-> d.struct,
          io_pos |-> el.io_pos, m_data_parsed |-> d.struct]

data_parsed(el, io_at_eof) == data_parsed_of(el, io_at_eof, DataStruct(el.type, el.data))

NoAccess == [op |-> "none", path |-> <<>>, err |-> NoError, value |-> Unset]

\* from_stream raises err
FromStreamRaises(err) ==
    /\ status' = err
    /\ UNCHANGED <<elements, families, registry>>

\* IconFamily.from_ks(root_element.data_parsed): the family and its elements
FromStreamFamily(root, dp, d) ==
    /\ status' = "ok"
    /\ elements' = (<<>> :> [root EXCEPT !.m_data_parsed = dp.m_data_parsed])
                       @@ ChildElements(<<>>, d)
    /\ families' = (<<>> :> IconFamily_init(d))
    /\ registry' = registry_after_from_ks(registry, dp.struct.elements)

FromStreamParsed(root, dp) ==
    IF dp.err # NoError THEN FromStreamRaises(dp.err)
    ELSE FromStreamFamily(root, dp, IconFamily_from_ks(dp.struct))

\* Icns._read has read the element e: its type must be main_family, then
\* root_element.data_parsed is taken
FromStreamRead(e) ==
    /\ pos' = e.pos
    /\ IF e.err # NoError THEN FromStreamRaises(e.err)
       ELSE IF as_enum(e.type) # main_family
       THEN FromStreamRaises("ValidationExprError(/seq/0)")
       ELSE FromStreamParsed(IconFamilyElement_from_ks(ElementStruct(e)),
                data_parsed(IconFamilyElement_from_ks(ElementStruct(e)),
                            is_eof(stream, e.pos)))

\* IconFamily.from_stream(stream): Icns.from_io reads the root element and
\* requires its type to be main_family; root_element.data_parsed builds the
\* IconFamilyData; IconFamily.from_ks builds the family and its elements.
FromStream ==
    /\ status = "new"
    /\ FromStreamRead(IconFamilyElement_read(stream, pos))
    /\ last' = [op |-> "from_stream", path |-> <<>>, err |-> status', value |-> Unset]
    /\ UNCHANGED <<threads, stream, nobj, rle, image>>

\* parsed raises err; the element is left as data_parsed left it
ParsedRaises(p, el2, err) ==
    /\ last' = [op |-> "parsed", path |-> p, err |-> err, value |-> Unset]
    /\ elements' = [elements EXCEPT ![p] = el2]
    /\ UNCHANGED <<families, nobj, registry>>

\* self._parsed = IconFamily.from_ks(...): the nested family and its elements
ParsedFamily(p, el3, d) ==
    /\ elements' = [elements EXCEPT ![p] = el3] @@ ChildElements(p, d)
    /\ families' = families @@ (p :> IconFamily_init(d))

\* parsed has built obj from the struct: it is cached and returned
ParsedObject(p, el2, obj, struct) ==
    IF obj = Unset THEN ParsedRaises(p, el2, "AssertionError")
    ELSE /\ last' = [op |-> "parsed", path |-> p, err |-> NoError, value |-> obj]
         /\ nobj' = nobj + 1
         /\ IF obj.cls = "IconFamily"
            THEN /\ ParsedFamily(p, [el2 EXCEPT !.parsed = obj], IconFamily_from_ks(struct))
                 /\ registry' = registry_after_from_ks(registry, struct.elements)
            ELSE /\ elements' = [elements EXCEPT ![p] = [el2 EXCEPT !.parsed = obj]]
                 /\ UNCHANGED <<families, registry>>

\* parsed has taken self._struct.data_parsed, with the outcome dp
ParsedStruct(p, el2, dp) ==
    IF dp.err # NoError THEN ParsedRaises(p, el2, dp.err)
    ELSE ParsedObject(p, el2, ParsedFromStruct(dp.struct, nobj + 1), dp.struct)

ParsedCompute(p, el, dp) ==
    ParsedStruct(p, [el EXCEPT !.io_pos = dp.io_pos, !.m_data_parsed = dp.m_data_parsed], dp)
\* an element that never finds its _parsed
HasParsed_never(el) == FALSE

\* has the API element el a cached _parsed
HasParsed(el) == el.parsed # Unset

\* element.parsed on the API element at path p of a family that has been
\* resolved: the cached _parsed, or the object built from data_parsed.  The
\* element's self._io is the own stream of the enclosing element.
Parsed(p) ==
    /\ p \in DOMAIN elements
    /\ p # <<>>
    /\ elements[p].accesses < MaxAccesses
    /\ IF HasParsed(elements[p])
       THEN /\ last' = [op |-> "parsed", path |-> p, err |-> NoError,
                        value |-> elements[p].parsed]
            /\ elements' = [elements EXCEPT ![p].accesses = @ + 1]
            /\ UNCHANGED <<families, nobj, registry>>
       ELSE ParsedCompute(p, [elements[p] EXCEPT !.accesses = @ + 1],
                data_parsed(elements[p],
                            is_eof(elements[Front(p)].data, elements[Front(p)].io_pos)))
    /\ UNCHANGED <<threads, stream, pos, status, rle, image>>

(***************************************************************************)
(* Lookup of the best icon and the best mask of a resolution (api.py).     *)
(***************************************************************************)
\* a ranking of the icon data types that puts the oldest format first
ICON_TYPE_QUALITIES_reversed ==
    [icon_1_bit_with_mask |-> 7, icon_4_bit |-> 6, icon_8_bit |-> 5,
     icon_rgb |-> 4, icon_argb |-> 3, icon_png_jp2_rgb |-> 2, icon_png_jp2 |-> 1]

ICON_TYPE_QUALITIES ==
    [icon_1_bit_with_mask |-> 1, icon_4_bit |-> 2, icon_8_bit |-> 3,
     icon_rgb |-> 4, icon_argb |-> 5, icon_png_jp2_rgb |-> 6, icon_png_jp2 |-> 7]

\* a ranking of the mask data types that prefers the 1-bit mask
MASK_TYPE_QUALITIES_reversed ==
    [icon_1_bit_with_mask |-> 2, icon_8_bit_mask |-> 1]

MASK_TYPE_QUALITIES ==
    [icon_1_bit_with_mask |-> 1, icon_8_bit_mask |-> 2]

\* the empty dict
EmptyDict == <<>>

\* a lookup that takes the elements of every resolution of the index
defaultdict_getitem_any(idx, res) ==
    [dt \in UNION {DOMAIN idx[r] : r \in DOMAIN idx} |->
        idx[CHOOSE r \in DOMAIN idx : dt \in DOMAIN idx[r]][dt]]

\* the value of defaultdict(dict)[res]: the dict of res, an empty one if
\* the index has none
defaultdict_getitem(idx, res) ==
    IF res \in DOMAIN idx THEN idx[res] ELSE EmptyDict

\* the defaultdict after defaultdict(dict)[res]: a missing key is entered
\* with an empty dict
defaultdict_missing(idx, res) ==
    [r \in (DOMAIN idx) \cup {res} |-> IF r \in DOMAIN idx THEN idx[r] ELSE EmptyDict]

\* set(ranking).intersection(elements_for_resolution_by_type)
available_matching_types(ranking, by_type) == (DOMAIN ranking) \cap (DOMAIN by_type)

\* max(available_matching_types, key=lambda tp: ranking[tp])
max_by_ranking(types, ranking) ==
    CHOOSE tp \in types : \A other \in types : ranking[other] <= ranking[tp]

NoElement == <<>>

\* the outcome of _best_element_for_resolution once the dict of the
\* resolution and the available types are known: the key of the element
best_element_of(by_type, ranking, available) ==
    IF available = {} THEN [err |-> "KeyError", key |-> NoElement]
    ELSE [err |-> NoError, key |-> by_type[max_by_ranking(available, ranking)]]

\* IconFamily._best_element_for_resolution on the index idx
best_element_for_resolution(idx, resolution, ranking) ==
    best_element_of(defaultdict_getitem(idx, resolution), ranking,
        available_matching_types(ranking, defaultdict_getitem(idx, resolution)))

\* IconFamily.mask_element_for_resolution
mask_element_for_resolution(idx, resolution) ==
    best_element_for_resolution(idx, resolution, MASK_TYPE_QUALITIES)

\* IconFamily.icon_element_for_resolution
icon_element_for_resolution(idx, resolution) ==
    best_element_for_resolution(idx, resolution, ICON_TYPE_QUALITIES)

\* the resolutions asked for
LookupResolutions == {<<16, 16, 1>>, <<32, 32, 1>>, <<16, 12, 1>>}

\* a lookup on the family at path p has ended with r: the index has the
\* resolution entered, last records the call and its outcome
Looked(p, op, resolution, r) ==
    /\ families' = [families EXCEPT ![p].elements_by_resolution_and_type =
                       defaultdict_missing(@, resolution)]
    /\ last' = [op |-> op, path |-> p, err |-> r.err, value |-> Unset,
                resolution |-> resolution, key |-> r.key]
    /\ UNCHANGED <<threads, stream, pos, status, elements, nobj, rle, image, registry>>

\* family.icon_element_for_resolution(resolution) on a resolved family
IconElementForResolution(p, resolution) ==
    /\ p \in DOMAIN families
    /\ Looked(p, "icon_element_for_resolution", resolution,
           icon_element_for_resolution(families[p].elements_by_resolution_and_type,
                                       resolution))

\* family.mask_element_for_resolution(resolution) on a resolved family
MaskElementForResolution(p, resolution) ==
    /\ p \in DOMAIN families
    /\ Looked(p, "mask_element_for_resolution", resolution,
           mask_element_for_resolution(families[p].elements_by_resolution_and_type,
                                       resolution))

(***************************************************************************)
(* ICNS-style PackBits: IcnsStylePackbits.Chunk, IcnsStylePackbits.chunks, *)
(* _decompress_icns_style_packbits and ICNSStylePackbits.uncompressed.     *)
(***************************************************************************)
\* Chunk.is_repeat
is_repeat(tag) == tag >= 128

\* a literal chunk of tag bytes, as if the tag were the length itself
len_literal_data_tag(tag) == tag

\* Chunk.len_literal_data
len_literal_data(tag) == tag + 1
\* the repeat count of standard PackBits
repeat_count_packbits(tag) == 257 - tag

\* Chunk.repeat_count
repeat_count(tag) == tag - 125

\* the chunk read, given the results of reading the tag t, the literal
\* bytes l and the byte to repeat r
Chunk_of(t, l, r) ==
    IF t.err # NoError
    THEN [err |-> t.err, pos |-> t.pos, tag |-> 0, literal_data |-> <<>>, repeated_byte |-> 0]
    ELSE IF ~is_repeat(t.val)
    THEN [err |-> l.err, pos |-> l.pos, tag |-> t.val, literal_data |-> l.val,
          repeated_byte |-> 0]
    ELSE [err |-> r.err, pos |-> r.pos, tag |-> t.val, literal_data |-> <<>>,
          repeated_byte |-> r.val]

\* a chunk whose literal bytes are read with the read that returns short
Chunk_body_short(buf, t) ==
    Chunk_of(t, read_bytes_short(buf, t.pos, len_literal_data(t.val)), read_u1(buf, t.pos))

Chunk_body(buf, t) ==
    Chunk_of(t, read_bytes(buf, t.pos, len_literal_data(t.val)), read_u1(buf, t.pos))

\* Chunk._read: the tag, then the literal bytes or the byte to repeat
Chunk_read(buf, p) == Chunk_body(buf, read_u1(buf, p))

\* IcnsStylePackbits.chunks: chunks are read from position 0 until the
\* stream is at its end
RECURSIVE chunks_loop(_, _, _)
RECURSIVE chunks_step(_, _, _)
chunks_loop(buf, p, acc) ==
    IF is_eof(buf, p) THEN [err |-> NoError, chunks |-> acc, pos |-> p]
    ELSE chunks_step(buf, acc, Chunk_read(buf, p))

chunks_step(buf, acc, c) ==
    IF c.err # NoError THEN [err |-> c.err, chunks |-> acc, pos |-> c.pos]
    ELSE chunks_loop(buf, c.pos, Append(acc, c))

chunks(buf) == chunks_loop(buf, 0, <<>>)

\* bytes([b]) * n
Repeated(b, n) == [i \in 1..n |-> b]

\* what _decompress_icns_style_packbits yields for one chunk
ChunkOutput(c) ==
    IF is_repeat(c.tag) THEN Repeated(c.repeated_byte, repeat_count(c.tag))
    ELSE c.literal_data

\* b"".join(_decompress_icns_style_packbits(chunks))
RECURSIVE decompress_icns_style_packbits(_)
decompress_icns_style_packbits(cs) ==
    IF cs = <<>> THEN <<>>
    ELSE ChunkOutput(Head(cs)) \o decompress_icns_style_packbits(Tail(cs))

\* an ICNSStylePackbits object: _uncompressed is not set (has = FALSE) until
\* an access to uncompressed has returned
NewPackbits(compressed) ==
    [compressed |-> compressed, has_uncompressed |-> FALSE, uncompressed |-> <<>>,
     accesses |-> 0, err |-> NoError, n_chunks |-> 0]

NoPackbits == NewPackbits(<<>>)

\* the access to uncompressed, given the outcome r of parsing the chunks
UncompressedOf(r) ==
    IF rle.has_uncompressed
    THEN rle' = [rle EXCEPT !.accesses = @ + 1, !.err = NoError]
    ELSE IF r.err # NoError
    THEN rle' = [rle EXCEPT !.accesses = @ + 1, !.err = r.err, !.n_chunks = Len(r.chunks)]
    ELSE rle' = [rle EXCEPT !.accesses = @ + 1, !.err = NoError,
                            !.has_uncompressed = TRUE,
                            !.uncompressed = decompress_icns_style_packbits(r.chunks),
                            !.n_chunks = Len(r.chunks)]

\* ICNSStylePackbits.uncompressed: the cached bytes, or the chunks parsed
\* from the compressed bytes and joined, cached when that returns
Uncompressed ==
    /\ rle.accesses < MaxAccesses
    /\ UncompressedOf(chunks(rle.compressed))
    /\ UNCHANGED <<threads, stream, pos, status, elements, families, last, nobj, image, registry>>

(***************************************************************************)
(* Images: PIL.Image as IconRGB and IconARGB use it.  An image is its      *)
(* mode, its size in pixels and one sequence of bytes per band, each in    *)
(* row-major order.                                                        *)
(***************************************************************************)
NoImage == [mode |-> "none", size |-> <<0, 0>>, bands |-> <<>>]

\* Resolution.pixel_width, pixel_height and pixel_size of <<w, h, scale>>
pixel_width(resolution) == resolution[1] * resolution[3]
pixel_height(resolution) == resolution[2] * resolution[3]
pixel_size(resolution) == <<pixel_width(resolution), pixel_height(resolution)>>

\* the slice data[a:b] of Python, for 0 <= a <= b
Slice(data, a, b) ==
    SubSeq(data, (IF a < Len(data) THEN a ELSE Len(data)) + 1,
                 IF b < Len(data) THEN b ELSE Len(data))

\* PIL.Image.frombytes("L", size, data): one byte per pixel; ValueError
\* ("not enough image data") when data are shorter than the image, bytes
\* after the image are not looked at
frombytes_L(size, data) ==
    IF Len(data) < size[1] * size[2]
    THEN [err |-> "ValueError", im |-> NoImage]
    ELSE [err |-> NoError,
          im |-> [mode |-> "L", size |-> size,
                  bands |-> <<SubSeq(data, 1, size[1] * size[2])>>]]

\* PIL.Image.merge(mode, bands): every band is an "L" image of the size of
\* the first, else ValueError
merge(mode, ims) ==
    IF \E i \in 1..Len(ims) : ims[i].mode # "L" \/ ims[i].size # ims[1].size
    THEN [err |-> "ValueError", im |-> NoImage]
    ELSE [err |-> NoError,
          im |-> [mode |-> mode, size |-> ims[1].size,
                  bands |-> [i \in 1..Len(ims) |-> ims[i].bands[1]]]]

\* the end of IconRGB.to_pil_image: the three channel images, merged with
\* the mask when there is one
IconRGB_merge(r, g, b, mask) ==
    IF r.err # NoError THEN r
    ELSE IF g.err # NoError THEN g
    ELSE IF b.err # NoError THEN b
    ELSE IF mask = NoImage THEN merge("RGB", <<r.im, g.im, b.im>>)
    ELSE merge("RGBA", <<r.im, g.im, b.im, mask>>)

\* a to_pil_image that takes the data for interleaved pixels
IconRGB_channels_interleaved(size, n, d, mask) ==
    IconRGB_merge(frombytes_L(size, [i \in 1..(IF Len(d) \div 3 < n THEN Len(d) \div 3 ELSE n)
                                        |-> d[3 * i - 2]]),
                  frombytes_L(size, [i \in 1..(IF Len(d) \div 3 < n THEN Len(d) \div 3 ELSE n)
                                        |-> d[3 * i - 1]]),
                  frombytes_L(size, [i \in 1..(IF Len(d) \div 3 < n THEN Len(d) \div 3 ELSE n)
                                        |-> d[3 * i]]),
                  mask)

\* IconRGB.to_pil_image on the uncompressed data d, with channel_length n
IconRGB_channels(size, n, d, mask) ==
    IconRGB_merge(frombytes_L(size, Slice(d, 0, n)),
                  frombytes_L(size, Slice(d, n, 2 * n)),
                  frombytes_L(size, Slice(d, 2 * n, 3 * n)),
                  mask)

\* IconRGB.to_pil_image(mask), given the outcome u of self.rgb_data.uncompressed
IconRGB_to_pil_image(resolution, u, mask) ==
    IF u.err # NoError THEN [err |-> u.err, im |-> NoImage]
    ELSE IconRGB_channels(pixel_size(resolution),
                          pixel_width(resolution) * pixel_height(resolution),
                          u.uncompressed, mask)

\* the end of IconARGB.to_pil_image: the four channel images, merged
IconARGB_merge(a, r, g, b) ==
    IF a.err # NoError THEN a
    ELSE IF r.err # NoError THEN r
    ELSE IF g.err # NoError THEN g
    ELSE IF b.err # NoError THEN b
    ELSE merge("RGBA", <<r.im, g.im, b.im, a.im>>)

\* IconARGB.to_pil_image on the uncompressed data d, with channel_length n
IconARGB_channels(size, n, d) ==
    IconARGB_merge(frombytes_L(size, Slice(d, 0, n)),
                   frombytes_L(size, Slice(d, n, 2 * n)),
                   frombytes_L(size, Slice(d, 2 * n, 3 * n)),
                   frombytes_L(size, Slice(d, 3 * n, 4 * n)))

\* IconARGB.to_pil_image(), given the outcome u of self.argb_data.uncompressed
IconARGB_to_pil_image(resolution, u) ==
    IF u.err # NoError THEN [err |-> u.err, im |-> NoImage]
    ELSE IconARGB_channels(pixel_size(resolution),
                           pixel_width(resolution) * pixel_height(resolution),
                           u.uncompressed)

\* an IconRGB or IconARGB object, whose data are the ICNSStylePackbits
\* object rle, with the mask it will be converted with, the number of calls
\* of to_pil_image and the outcome of the last
NewIcon(cls, resolution, mask) ==
    [cls |-> cls, resolution |-> resolution, mask |-> mask, calls |-> 0,
     err |-> NoError, im |-> NoImage]

NoIcon == NewIcon("none", <<0, 0, 0>>, NoImage)

\* the image object after a call of to_pil_image with the outcome out
Converted(out) == image' = [image EXCEPT !.calls = @ + 1, !.err = out.err, !.im = out.im]

\* IconRGB.to_pil_image(mask)
ToPilImageRGB ==
    /\ image.cls = "IconRGB"
    /\ image.calls < MaxAccesses
    /\ UncompressedOf(chunks(rle.compressed))
    /\ Converted(IconRGB_to_pil_image(image.resolution, rle', image.mask))
    /\ UNCHANGED <<threads, stream, pos, status, elements, families, last, nobj, registry>>

\* IconARGB.to_pil_image()
ToPilImageARGB ==
    /\ image.cls = "IconARGB"
    /\ image.calls < MaxAccesses
    /\ UncompressedOf(chunks(rle.compressed))
    /\ Converted(IconARGB_to_pil_image(image.resolution, rle'))
    /\ UNCHANGED <<threads, stream, pos, status, elements, families, last, nobj, registry>>

(***************************************************************************)
(* The inputs of the model.                                                *)
(***************************************************************************)
(* Images of the bitmap icons, of the masks and of PNG or JPEG 2000 data.  *)
(* An image made from a palette keeps the palette indices as its first     *)
(* band and names the palette that gives them their colours.               *)
(***************************************************************************)
Raises(err) == [err |-> err, im |-> NoImage]

Image(im) == [err |-> NoError, im |-> im]

\* bit k (0 the most significant) of byte b
BitOf(b, k) == (b \div (2 ^ (7 - k))) % 2

\* PIL.Image.frombytes("1", size, data): one bit per pixel, most significant
\* bit first, each row padded to whole bytes; a set bit is the pixel 255
frombytes_1(size, data) ==
    IF Len(data) < ((size[1] + 7) \div 8) * size[2] THEN Raises("ValueError")
    ELSE Image([mode |-> "1", size |-> size,
                bands |-> <<[i \in 1..(size[1] * size[2]) |->
                    255 * BitOf(data[((i - 1) \div size[1]) * ((size[1] + 7) \div 8)
                                         + (((i - 1) % size[1]) \div 8) + 1],
                                ((i - 1) % size[1]) % 8)]>>])

\* PIL.ImageChops.invert(image)
invert(im) == [im EXCEPT !.bands = <<[i \in 1..Len(im.bands[1]) |-> 255 - im.bands[1][i]]>>]

\* image.convert("L") of a 1-bit image
convert_L(im) == [im EXCEPT !.mode = "L"]

\* image.putalpha(mask) on an "L" or "RGB" image: the mask is a 1-bit or
\* 8-bit image of the same size, else ValueError
putalpha(im, mask) ==
    IF mask.mode \notin {"1", "L"} \/ mask.size # im.size THEN Raises("ValueError")
    ELSE Image([im EXCEPT !.mode = im.mode \o "A", !.bands = Append(im.bands, mask.bands[1])])

\* image.getchannel("A"): the last band of an image with an alpha channel
getchannel_A(im) ==
    IF im.mode \notin {"LA", "RGBA"} THEN Raises("ValueError")
    ELSE Image([mode |-> "L", size |-> im.size, bands |-> <<im.bands[Len(im.bands)]>>])

\* the end of Icon1BitAndMask.to_pil_image: the inverted icon, then the mask
Icon1BitAndMask_alpha(icon, mask) ==
    IF icon.err # NoError THEN icon
    ELSE IF mask.err # NoError THEN mask
    ELSE putalpha(convert_L(invert(icon.im)), mask.im)

\* Icon1BitAndMask.to_pil_image()
Icon1BitAndMask_to_pil_image(self) ==
    Icon1BitAndMask_alpha(frombytes_1(pixel_size(self.resolution), self.icon_data),
                          frombytes_1(pixel_size(self.resolution), self.mask_data))

\* image.putpalette(palette) on an "L" image
putpalette(r, palette) ==
    IF r.err # NoError THEN r
    ELSE Image([mode |-> "P", size |-> r.im.size, bands |-> r.im.bands, palette |-> palette])

\* image.convert("RGB") of a palette image
convert_RGB(im) == [im EXCEPT !.mode = "RGB"]

\* _add_mask_to_palette_image(image, mask), NoImage for the mask None
add_mask_to_palette_image(r, mask) ==
    IF r.err # NoError THEN r
    ELSE IF mask = NoImage THEN r
    ELSE putalpha(convert_RGB(r.im), mask)

\* the loop of Icon4Bit.to_pil_image: each byte split into two pixels
data_8_bit(icon_data) ==
    [i \in 1..(2 * Len(icon_data)) |->
        IF i % 2 = 1 THEN (icon_data[(i + 1) \div 2] \div 16) % 16
        ELSE icon_data[i \div 2] % 16]

\* Icon4Bit.to_pil_image(mask)
Icon4Bit_to_pil_image(self, mask) ==
    add_mask_to_palette_image(
        putpalette(frombytes_L(pixel_size(self.resolution), data_8_bit(self.icon_data)),
                   "MACINTOSH_4_BIT_PALETTE"),
        mask)

\* Icon8Bit.to_pil_image(mask)
Icon8Bit_to_pil_image(self, mask) ==
    add_mask_to_palette_image(
        putpalette(frombytes_L(pixel_size(self.resolution), self.icon_data),
                   "MACINTOSH_8_BIT_PALETTE"),
        mask)

\* Icon8BitMask.to_pil_image()
Icon8BitMask_to_pil_image(self) == frombytes_L(pixel_size(self.resolution), self.mask_data)

\* data.startswith(prefix)
startswith(data, prefix) ==
    Len(data) >= Len(prefix) /\ SubSeq(data, 1, Len(prefix)) = prefix

\* PIL.Image.open(io.BytesIO(data)): data with the signature of one of the
\* two formats that is_png and is_jpeg_2000 tell apart are opened as an
\* image file, whose bytes stand for its pixels; other data are not
\* identified
Image_open(data) ==
    IF \/ startswith(data, <<137, 80, 78, 71, 13, 10, 26, 10>>)
       \/ startswith(data, <<0, 0, 0, 12, 106, 80, 32, 32, 13, 10, 135, 10>>)
    THEN Image([mode |-> "file", size |-> <<0, 0>>, bands |-> <<data>>])
    ELSE Raises("UnidentifiedImageError")

\* IconPNGOrJPEG2000.to_pil_image()
IconPNGOrJPEG2000_to_pil_image(self) == Image_open(self.data)

(***************************************************************************)
(* Images by resolution (api.py): the best icon of a resolution with the   *)
(* best mask applied.  The steps of a call pass on the heap h: the element *)
(* objects and the number of parsed objects built.                         *)
(***************************************************************************)
\* the outcome of a step: the error, the value, and the heap it leaves
Step(err, value, els, n) == [err |-> err, value |-> value, elements |-> els, nobj |-> n]

\* element.parsed has built obj for the element at q, left as el2 by
\* data_parsed
parsed_built(h, q, el2, obj) ==
    IF obj = Unset
    THEN Step("AssertionError", Unset, [h.elements EXCEPT ![q] = el2], h.nobj)
    ELSE Step(NoError, obj, [h.elements EXCEPT ![q] = [el2 EXCEPT !.parsed = obj]],
              h.nobj + 1)

\* element.parsed on the element at q of the heap h, where dp is the
\* outcome of its data_parsed
parsed_of(h, q, dp) ==
    IF HasParsed(h.elements[q])
    THEN Step(NoError, h.elements[q].parsed,
              [h.elements EXCEPT ![q].accesses = @ + 1], h.nobj)
    ELSE IF dp.err # NoError
    THEN Step(dp.err, Unset,
              [h.elements EXCEPT ![q].accesses = @ + 1, ![q].io_pos = dp.io_pos,
                                 ![q].m_data_parsed = dp.m_data_parsed], h.nobj)
    ELSE parsed_built(h, q,
             [h.elements[q] EXCEPT !.accesses = @ + 1, !.io_pos = dp.io_pos,
                                   !.m_data_parsed = dp.m_data_parsed],
             ParsedFromStruct(dp.struct, h.nobj + 1))

\* element.parsed on the element at q of the heap h
parsed(h, q) ==
    parsed_of(h, q, data_parsed(h.elements[q],
                        is_eof(h.elements[Front(q)].data, h.elements[Front(q)].io_pos)))

\* self.rgb_data.uncompressed: the ICNSStylePackbits object after the
\* access, r being the chunks parsed from its compressed bytes
Packbits_uncompressed(compressed, r) ==
    [NewPackbits(compressed) EXCEPT
        !.accesses = 1, !.err = r.err, !.n_chunks = Len(r.chunks),
        !.has_uncompressed = (r.err = NoError),
        !.uncompressed = IF r.err = NoError THEN decompress_icns_style_packbits(r.chunks)
                         ELSE <<>>]

\* the classes of IconWithoutMask and of IconWithMask
IconWithoutMask == {"Icon4Bit", "Icon8Bit", "IconRGB"}
IconWithMask == {"Icon1BitAndMask", "IconARGB", "IconPNGOrJPEG2000"}

\* parsed_icon.to_pil_image(mask_image) of an IconWithoutMask
IconWithoutMask_to_pil_image(self, mask) ==
    CASE self.cls = "Icon4Bit" -> Icon4Bit_to_pil_image(self, mask)
      [] self.cls = "Icon8Bit" -> Icon8Bit_to_pil_image(self, mask)
      [] self.cls = "IconRGB" ->
           IconRGB_to_pil_image(self.resolution,
               Packbits_uncompressed(self.rgb_data, chunks(self.rgb_data)), mask)

\* parsed_icon.to_pil_image() of an IconWithMask
IconWithMask_to_pil_image(self) ==
    CASE self.cls = "Icon1BitAndMask" -> Icon1BitAndMask_to_pil_image(self)
      [] self.cls = "IconPNGOrJPEG2000" -> IconPNGOrJPEG2000_to_pil_image(self)
      [] self.cls = "IconARGB" ->
           IconARGB_to_pil_image(self.resolution,
               Packbits_uncompressed(self.argb_data, chunks(self.argb_data)))

\* a step that ends with the image or the error of r
ImageStep(r, h) == Step(r.err, r.im, h.elements, h.nobj)

\* parsed_mask.to_pil_image().getchannel("A")
getchannel_A_of(r) == IF r.err # NoError THEN r ELSE getchannel_A(r.im)

\* the end of mask_image_for_resolution: the image of the parsed mask
mask_image_of(pm) ==
    IF pm.err # NoError THEN Step(pm.err, NoImage, pm.elements, pm.nobj)
    ELSE IF pm.value.cls \in IconWithMask
    THEN ImageStep(getchannel_A_of(IconWithMask_to_pil_image(pm.value)), pm)
    ELSE IF pm.value.cls # "Icon8BitMask"
    THEN Step("AssertionError", NoImage, pm.elements, pm.nobj)
    ELSE ImageStep(Icon8BitMask_to_pil_image(pm.value), pm)

\* IconFamily.mask_image_for_resolution on the family at p, m being the
\* outcome of mask_element_for_resolution
mask_image_for_resolution(h, p, m) ==
    IF m.err # NoError THEN Step(m.err, NoImage, h.elements, h.nobj)
    ELSE mask_image_of(parsed(h, Append(p, m.key)))

\* the ICNSStylePackbits object that to_pil_image of self has decompressed
Packbits_of(self) ==
    CASE self.cls = "IconRGB" -> Packbits_uncompressed(self.rgb_data, chunks(self.rgb_data))
      [] self.cls = "IconARGB" -> Packbits_uncompressed(self.argb_data, chunks(self.argb_data))
      [] OTHER -> rle

\* the outcome of icon_image_for_resolution: the image or the error, the
\* heap, the icon object converted and the mask image applied to it
IconImage(out, self, mask, h) ==
    [err |-> out.err, im |-> out.im, icon |-> self, mask |-> mask,
     elements |-> h.elements, nobj |-> h.nobj]

\* an IconWithoutMask branch that converts the icon without its mask
icon_image_unmasked(self, mi) ==
    IconImage(IconWithoutMask_to_pil_image(self, NoImage), self, NoImage, mi)

\* the IconWithoutMask branch: mi is the outcome of
\* mask_image_for_resolution, a KeyError of which means no mask
icon_image_masked(self, mi) ==
    IF mi.err = "KeyError"
    THEN IconImage(IconWithoutMask_to_pil_image(self, NoImage), self, NoImage, mi)
    ELSE IF mi.err # NoError THEN IconImage(Raises(mi.err), self, NoImage, mi)
    ELSE IconImage(IconWithoutMask_to_pil_image(self, mi.value), self, mi.value, mi)

\* icon_image_for_resolution once the icon element is parsed, with outcome
\* pi; m is the outcome of mask_element_for_resolution
icon_image_of(p, pi, m) ==
    IF pi.err # NoError THEN IconImage(Raises(pi.err), Unset, NoImage, pi)
    ELSE IF pi.value.cls \in IconWithoutMask
    THEN icon_image_masked(pi.value, mask_image_for_resolution(pi, p, m))
    ELSE IF pi.value.cls \notin IconWithMask
    THEN IconImage(Raises("AssertionError"), pi.value, NoImage, pi)
    ELSE IconImage(IconWithMask_to_pil_image(pi.value), pi.value, NoImage, pi)

\* IconFamily.icon_image_for_resolution on the family at p, i and m being
\* the outcomes of icon_element_for_resolution and
\* mask_element_for_resolution
icon_image_for_resolution(h, p, i, m) ==
    IF i.err # NoError THEN IconImage(Raises(i.err), Unset, NoImage, h)
    ELSE icon_image_of(p, parsed(h, Append(p, i.key)), m)

\* the outcome of mask_image_for_resolution, as that of a call
MaskImage(mi) == IconImage([err |-> mi.err, im |-> mi.value], Unset, NoImage, mi)

\* a call on the family at p has ended with out, el being the outcome of
\* its element lookup: the heap, the index with the resolution entered, the
\* object decompressed, the image returned
ImageReturned(p, op, resolution, el, out) ==
    /\ elements' = out.elements
    /\ nobj' = out.nobj
    /\ families' = [families EXCEPT ![p].elements_by_resolution_and_type =
                       defaultdict_missing(@, resolution)]
    /\ rle' = IF out.icon = Unset THEN rle ELSE Packbits_of(out.icon)
    /\ image' = [cls |-> op, resolution |-> resolution, mask |-> out.mask,
                 calls |-> image.calls + 1, err |-> out.err, im |-> out.im]
    /\ last' = [op |-> op, path |-> p, err |-> out.err, value |-> out.icon,
                resolution |-> resolution, key |-> el.key]
    /\ UNCHANGED <<threads, stream, pos, status, registry>>

\* family.icon_image_for_resolution(resolution) on a resolved family
IconImageForResolution(p, resolution) ==
    /\ p \in DOMAIN families
    /\ image.calls < MaxAccesses
    /\ ImageReturned(p, "icon_image_for_resolution", resolution,
           icon_element_for_resolution(
               families[p].elements_by_resolution_and_type, resolution),
           icon_image_for_resolution([elements |-> elements, nobj |-> nobj], p,
               icon_element_for_resolution(
                   families[p].elements_by_resolution_and_type, resolution),
               mask_element_for_resolution(
                   families[p].elements_by_resolution_and_type, resolution)))

\* family.mask_image_for_resolution(resolution) on a resolved family
MaskImageForResolution(p, resolution) ==
    /\ p \in DOMAIN families
    /\ image.calls < MaxAccesses
    /\ ImageReturned(p, "mask_image_for_resolution", resolution,
           mask_element_for_resolution(
               families[p].elements_by_resolution_and_type, resolution),
           MaskImage(mask_image_for_resolution([elements |-> elements, nobj |-> nobj], p,
               mask_element_for_resolution(
                   families[p].elements_by_resolution_and_type, resolution))))

(***************************************************************************)
TC_icns == <<105, 99, 110, 115>>
TC_tile == <<116, 105, 108, 101>>
TC_icnV == <<105, 99, 110, 86>>
\* a type code that is not registered
TC_zzzz == <<122, 122, 122, 122>>
\* 'ic04' (16x16 ARGB), 'it32' (128x128 RGB, zero-prefixed), 'is32' (16x16 RGB)
TC_ic04 == <<105, 99, 48, 52>>
TC_it32 == <<105, 116, 51, 50>>
TC_is32 == <<105, 115, 51, 50>>

\* int.to_bytes(4, "big")
to_bytes_4_big(n) ==
    <<(n \div 16777216) % 256, (n \div 65536) % 256, (n \div 256) % 256, n % 256>>

\* the bytes of an element whose header declares the length len
ElementBytes(type, len, body) == type \o to_bytes_4_big(len) \o body

\* the bytes of an element whose header declares its true length
WellFormed(type, body) == ElementBytes(type, Len(body) + 8, body)

RECURSIVE Concat(_)
Concat(ss) == IF ss = <<>> THEN <<>> ELSE Head(ss) \o Concat(Tail(ss))

SeqsUpTo(S, n) == UNION {[1..k -> S] : k \in 0..n}

BodyPattern == <<63, 128, 0, 0, 7, 9, 11, 13>>
BodyOf(n) == SubSeq(BodyPattern, 1, n)
Zeros(n) == [i \in 1..n |-> 0]

\* children of unknown type, with bodies of every length up to MaxBody
UnknownKids == {WellFormed(TC_zzzz, BodyOf(n)) : n \in 0..MaxBody}
\* Icon Composer version elements with a body of 3, 4 and 5 bytes
VersionKids == {WellFormed(TC_icnV, BodyOf(n)) : n \in {3, 4, 5}}
\* a declared length below 8, a declared length beyond the bytes there are,
\* and bytes that are no complete header
BadKids == {ElementBytes(TC_zzzz, 0, <<>>), ElementBytes(TC_zzzz, 7, <<>>),
            ElementBytes(TC_zzzz, 9, <<>>), ElementBytes(TC_zzzz, 134217728, <<>>),
            Zeros(1), Zeros(4), SubSeq(WellFormed(TC_zzzz, <<>>), 1, 7)}
\* what a nested family body is made of
NestedKids == {WellFormed(TC_zzzz, <<>>), WellFormed(TC_icnV, BodyOf(4)),
               ElementBytes(TC_zzzz, 7, <<>>), ElementBytes(TC_zzzz, 9, <<>>), Zeros(1),
               WellFormed(TC_tile, WellFormed(TC_zzzz, BodyOf(1)))}
NestedBodies ==
    {<<>>} \cup NestedKids
           \cup {a \o b : a \in {WellFormed(TC_zzzz, <<>>), WellFormed(TC_icnV, BodyOf(4))},
                          b \in NestedKids}
FamilyKids == {WellFormed(TC_tile, b) : b \in NestedBodies}

\* the children that generated families combine freely
CoreKids == {WellFormed(TC_zzzz, <<>>), WellFormed(TC_zzzz, BodyOf(1)),
             WellFormed(TC_icnV, BodyOf(4)), WellFormed(TC_tile, WellFormed(TC_zzzz, <<>>)),
             Zeros(1)}

\* top-level families of up to MaxChildren core children
RichStreams == {WellFormed(TC_icns, Concat(ks)) : ks \in SeqsUpTo(CoreKids, MaxChildren)}

\* top-level families of three children, among them children with the type
\* code of an earlier child and other data
TripleKids == {WellFormed(TC_zzzz, <<>>), WellFormed(TC_zzzz, BodyOf(1)),
               WellFormed(TC_icnV, BodyOf(4))}
TripleStreams == {WellFormed(TC_icns, a \o b \o c) : a \in TripleKids, b \in TripleKids, c \in TripleKids}

\* top-level families of one child of any kind
SingleKidStreams ==
    {WellFormed(TC_icns, k) : k \in UnknownKids \cup VersionKids \cup BadKids \cup FamilyKids}

\* bodies of ARGB and RGB elements: with the 'ARGB' signature, with 4 zero
\* bytes, with other first bytes, with fewer than 4 bytes, each with and
\* without compressed data after them
SignatureBodies ==
    {p \o c : p \in {<<>>, <<65, 82>>, <<65, 82, 71, 66>>, <<65, 82, 71, 88>>,
                     Zeros(3), Zeros(4), <<0, 0, 0, 1>>},
              c \in {<<>>, <<128, 7>>}}
SignatureStreams ==
    {WellFormed(TC_icns, WellFormed(t, b)) : t \in {TC_ic04, TC_it32, TC_is32},
                                             b \in SignatureBodies}

\* top-level elements of every type, with a declared length that is too
\* small, exact or too large, followed by up to MaxTrail bytes
TopBodies == {<<>>, WellFormed(TC_zzzz, BodyOf(1)), WellFormed(TC_zzzz, <<>>) \o Zeros(1)}
TopStreams ==
    UNION {{ElementBytes(t, l, b) \o Zeros(n) :
               t \in {TC_icns, TC_tile, TC_icnV, TC_zzzz},
               l \in {0, 7, 1000, Len(b) + 8, Len(b) + 9},
               n \in 0..MaxTrail} : b \in TopBodies}

(***************************************************************************)
(* Families of icon elements, for the lookups by resolution.               *)
(***************************************************************************)
TC_ics1 == <<105, 99, 115, 35>>      \* 'ics#' 16x16 1-bit icon and mask
TC_ics4 == <<105, 99, 115, 52>>      \* 'ics4' 16x16 4-bit icon
TC_ics8 == <<105, 99, 115, 56>>      \* 'ics8' 16x16 8-bit icon
TC_s8mk == <<115, 56, 109, 107>>     \* 's8mk' 16x16 8-bit mask
TC_icp4 == <<105, 99, 112, 52>>      \* 'icp4' 16x16 PNG or JPEG 2000
TC_ICN1 == <<73, 67, 78, 35>>        \* 'ICN#' 32x32 1-bit icon and mask
TC_il32 == <<105, 108, 51, 50>>      \* 'il32' 32x32 RGB
TC_icm8 == <<105, 99, 109, 56>>      \* 'icm8' 16x12 8-bit icon

\* n bytes of value v as repeat chunks of the ICNS run-length encoding
RECURSIVE RepeatRun(_, _)
RepeatRun(n, v) ==
    IF n = 0 THEN <<>>
    ELSE IF n >= 130 THEN <<255, v>> \o RepeatRun(n - 130, v)
    ELSE IF n >= 3 THEN <<n + 125, v>>
    ELSE <<n - 1>> \o [i \in 1..n |-> v]

\* a body that the reader of the type accepts: bitmaps of the size of the
\* resolution, run-length encoded channels, and opaque bytes for 'icp4'
IconBody(type) ==
    CASE type = TC_ics1 -> [i \in 1..64 |-> IF i <= 32 THEN 170 ELSE 255]
      [] type = TC_ics4 -> [i \in 1..128 |-> 18]
      [] type = TC_ics8 -> [i \in 1..256 |-> 5]
      [] type = TC_s8mk -> [i \in 1..256 |-> 200]
      [] type = TC_is32 -> RepeatRun(256, 10) \o RepeatRun(256, 20) \o RepeatRun(256, 30)
      [] type = TC_ic04 -> <<65, 82, 71, 66>> \o RepeatRun(256, 40) \o RepeatRun(256, 10)
                               \o RepeatRun(256, 20) \o RepeatRun(256, 30)
      [] type = TC_icp4 -> <<137, 80, 78, 71, 13, 10, 26, 10>>
      [] type = TC_ICN1 -> [i \in 1..256 |-> IF i <= 128 THEN 170 ELSE 255]
      [] type = TC_il32 -> RepeatRun(1024, 10) \o RepeatRun(1024, 20) \o RepeatRun(1024, 30)
      [] type = TC_icm8 -> [i \in 1..192 |-> 5]

\* the icon types of the generated families, in the order of the registry
IconTypes == <<TC_icm8, TC_ics1, TC_ics4, TC_ics8, TC_is32, TC_s8mk, TC_ICN1, TC_il32,
               TC_ic04, TC_icp4>>

\* the most icon elements of a generated family
MaxIcons == 3

\* the children of the family that holds the types of IconTypes at the
\* positions of I, from position i on
RECURSIVE IconKids(_, _)
IconKids(I, i) ==
    IF i > Len(IconTypes) THEN <<>>
    ELSE (IF i \in I THEN WellFormed(IconTypes[i], IconBody(IconTypes[i])) ELSE <<>>)
             \o IconKids(I, i + 1)

IconStreams ==
    {WellFormed(TC_icns, IconKids(I, 1)) :
        I \in {J \in SUBSET (1..Len(IconTypes)) : Cardinality(J) <= MaxIcons}}

\* a family in a family in the top-level family, the innermost with a body
\* that is filled by a child, that holds one byte, or that holds a child
\* whose declared length is below 8
DeepStreams ==
    {WellFormed(TC_icns, WellFormed(TC_tile, WellFormed(TC_tile, b))) :
        b \in {WellFormed(TC_zzzz, <<>>), Zeros(1), ElementBytes(TC_zzzz, 7, <<>>)}}

Streams ==
    RichStreams \cup TripleStreams \cup SingleKidStreams \cup SignatureStreams
        \cup TopStreams \cup DeepStreams \cup {<<>>, Zeros(4)}

\* compressed inputs: up to MaxChunks chunks, and every prefix of them
LiteralChunks == {<<0, 65>>, <<2, 65, 66, 67>>, <<127>> \o [i \in 1..128 |-> i]}
RepeatChunks == {<<128, 7>>, <<131, 255>>, <<255, 0>>}
WellFormedCompressed ==
    {Concat(cs) : cs \in SeqsUpTo(LiteralChunks \cup RepeatChunks, MaxChunks)}
\* the short prefixes of the well-formed inputs: inputs cut inside a chunk
ShortPrefixes(c) ==
    {SubSeq(c, 1, n) : n \in 0..(IF Len(c) < 2 * MaxChunks + 3 THEN Len(c) ELSE 2 * MaxChunks + 3)}
CompressedInputs == WellFormedCompressed \cup UNION {ShortPrefixes(c) : c \in WellFormedCompressed}

(***************************************************************************)
(* The specifications.                                                     *)
(***************************************************************************)
(* Extraction of a nested family as a file of its own (__main__.py), and   *)
(* IconFamily.from_stream as a function of the bytes of a file.            *)
(***************************************************************************)
\* a header that declares the length of the body alone
icns_header_body_length(data) == <<105, 99, 110, 115>> \o to_bytes_4_big(Len(data))

\* b"icns" + (len(element.data) + 8).to_bytes(4, "big")
icns_header(data) == <<105, 99, 110, 115>> \o to_bytes_4_big(Len(data) + 8)

\* the iteration of extract_icon_family for an element that is resolved to
\* a nested family: element.parsed returns the family, and the data of the
\* standalone file are the header and the element's data
ExtractIconFamily(q) ==
    /\ q \in DOMAIN families
    /\ q # <<>>
    /\ elements[q].accesses < MaxAccesses
    /\ elements' = [elements EXCEPT ![q].accesses = @ + 1]
    /\ last' = [op |-> "extract_icon_family", path |-> q, err |-> NoError,
                value |-> elements[q].parsed,
                data |-> icns_header(elements[q].data) \o elements[q].data]
    /\ UNCHANGED <<threads, stream, pos, status, families, nobj, rle, image, registry>>

\* the IconWithoutMask branch of extract_icon_family: mi is the outcome of
\* family.mask_image_for_resolution(parsed_data.resolution); `except
\* ValueError` takes a ValueError for no mask, any other error goes on
extract_icon_masked(self, mi) ==
    IF mi.err = "ValueError"
    THEN IconImage(IconWithoutMask_to_pil_image(self, NoImage), self, NoImage, mi)
    ELSE IF mi.err # NoError THEN IconImage(Raises(mi.err), self, NoImage, mi)
    ELSE IconImage(IconWithoutMask_to_pil_image(self, mi.value), self, mi.value, mi)

\* the iteration of extract_icon_family over the family at path p for an
\* element at q whose parsed, with the outcome pi, is an IconWithoutMask:
\* the mask image of its resolution is looked up in the family and the icon
\* is converted with it
ExtractIconOf(p, q, pi) ==
    /\ pi.err = NoError
    /\ pi.value.cls \in IconWithoutMask
    /\ ImageReturned(p, "extract_icon", pi.value.resolution, [key |-> q[Len(q)]],
           extract_icon_masked(pi.value,
               mask_image_for_resolution(pi, p,
                   mask_element_for_resolution(
                       families[p].elements_by_resolution_and_type,
                       pi.value.resolution))))

ExtractIcon(q) ==
    /\ q \in DOMAIN elements
    /\ q # <<>>
    /\ Front(q) \in DOMAIN families
    /\ image.calls < MaxAccesses
    /\ ExtractIconOf(Front(q), q, parsed([elements |-> elements, nobj |-> nobj], q))

(***************************************************************************)
(* The parser objects used directly: Icns.from_io and the data_parsed      *)
(* property of the element structs (icns.py).                              *)
(***************************************************************************)
\* Icns._read has read the root element e: its type must be main_family
FromIoRead(e) ==
    /\ pos' = e.pos
    /\ IF e.err # NoError THEN status' = e.err /\ UNCHANGED elements
       ELSE IF as_enum(e.type) # main_family
       THEN status' = "ValidationExprError(/seq/0)" /\ UNCHANGED elements
       ELSE /\ status' = "ok"
            /\ elements' = (<<>> :> IconFamilyElement_from_ks(ElementStruct(e)))

\* Icns.from_io(stream): the Icns object with its root element, the data of
\* which are not parsed yet
FromIo ==
    /\ status = "new"
    /\ FromIoRead(IconFamilyElement_read(stream, pos))
    /\ last' = [op |-> "from_io", path |-> <<>>, err |-> status', value |-> Unset]
    /\ UNCHANGED <<threads, stream, families, nobj, rle, image, registry>>

\* the element structs of an IconFamilyData built at path p, by their index
StructElements(p, struct) ==
    [q \in {Append(p, i) : i \in 1..Len(struct.elements)} |->
        IconFamilyElement_from_ks(struct.elements[q[Len(q)]])]

\* the access to data_parsed of the struct at path p has ended with dp: the
\* struct keeps what data_parsed has cached, and the elements of a family
\* that was built are there
DataParsedOf(p, dp) ==
    /\ elements' =
           [elements EXCEPT ![p] = [@ EXCEPT !.io_pos = dp.io_pos,
                                             !.m_data_parsed = dp.m_data_parsed,
                                             !.accesses = @ + 1]]
               @@ (IF elements[p].m_data_parsed = Unset /\ dp.m_data_parsed # Unset
                      /\ dp.m_data_parsed.cls = "IconFamilyData"
                   THEN StructElements(p, dp.m_data_parsed) ELSE <<>>)
    /\ last' = [op |-> "data_parsed", path |-> p, err |-> dp.err, value |-> dp.struct]

\* element.data_parsed on the struct at path p: self._io is the stream the
\* element was read from, the input stream for the root element and the
\* stream of the enclosing element's data for any other
DataParsed(p) ==
    /\ p \in DOMAIN elements
    /\ elements[p].accesses < MaxAccesses
    /\ DataParsedOf(p, data_parsed(elements[p],
                          IF p = <<>> THEN is_eof(stream, pos)
                          ELSE is_eof(elements[Front(p)].data, elements[Front(p)].io_pos)))
    /\ UNCHANGED <<threads, stream, pos, status, families, nobj, rle, image, registry>>

(***************************************************************************)
(* Two threads that access parsed of one element (api.py 70-101, icns.py   *)
(* 594-703), a step for each statement: the threads share the element, its *)
(* _parsed, the _m_data_parsed of its struct and the position of the       *)
(* stream of its data; _pos, the constructor's reads and the struct at     *)
(* hand are local to a thread.                                             *)
(***************************************************************************)
\* a thread that has not begun its access
NewThread == [pc |-> "try", saved_pos |-> 0, reads |-> <<>>, struct |-> Unset,
              err |-> NoError, value |-> Unset]

\* the reads of the constructor of case k, in order: the number of bytes,
\* -1 for the rest of the stream
Reads(k) ==
    CASE k.cls = "IconComposerVersionData" -> <<4>>
      [] k.cls = "IconX1AndMaskData" -> <<(k.a * k.b) \div 8, (k.a * k.b) \div 8>>
      [] k.cls = "IconX4Data" -> <<(k.a * k.b) \div 2>>
      [] k.cls \in {"IconX8Data", "IconX8MaskData"} -> <<k.a * k.b>>
      [] k.cls \in {"IconArgbData", "IconRgbZeroPrefixedData"} -> <<4, -1>>
      [] OTHER -> <<-1>>

\* one read of n bytes, or of the rest, at position p
ThreadRead(buf, p, n) ==
    IF n = -1 THEN read_bytes_full(buf, p) ELSE read_bytes(buf, p, n)

\* the error the constructor of case k raises after the reads rs: that of
\* the last read, or that of a signature that does not match
ConstructorError(k, rs) ==
    IF rs[Len(rs)].err # NoError THEN rs[Len(rs)].err
    ELSE IF Len(rs) = 1 /\ k.cls = "IconArgbData" /\ rs[1].val # <<65, 82, 71, 66>>
    THEN "ValidationNotEqualError"
    ELSE IF Len(rs) = 1 /\ k.cls = "IconRgbZeroPrefixedData" /\ rs[1].val # <<0, 0, 0, 0>>
    THEN "ValidationNotEqualError"
    ELSE NoError

\* the struct the constructor of case k builds of its reads rs
ConstructorStruct(k, rs) ==
    CASE k.cls = "IconComposerVersionData" -> IconComposerVersionData_of(rs[1]).struct
      [] k.cls = "InfoDictionaryData" -> InfoDictionaryData_of(rs[1]).struct
      [] k.cls = "IconX1AndMaskData" -> IconX1AndMaskData_of(k, rs[1], rs[2]).struct
      [] k.cls \in {"IconX4Data", "IconX8Data"} -> IconXData_of(k, rs[1]).struct
      [] k.cls = "IconX8MaskData" -> IconX8MaskData_of(k, rs[1]).struct
      [] k.cls = "IconRgbData" -> IconRgbData_of(k, rs[1]).struct
      [] k.cls = "IconRgbZeroPrefixedData" ->
           IconRgbZeroPrefixedData_of(k, rs[1], IconRgbData_of(k, rs[2])).struct
      [] k.cls = "IconArgbData" -> IconArgbData_of(k, rs[1], rs[2]).struct
      [] k.cls = "IconPngJp2Data" -> IconPngJp2Data_of(k, rs[1]).struct
      [] OTHER -> BytesWithIo_of(rs[1]).struct

\* the other thread is within its access
Active(u) == threads.t[u].pc \notin {"try", "done"}

\* thread t has taken a step that leaves it as th and the element as el
ThreadStep(t, th, el) ==
    /\ threads' = [threads EXCEPT !.t[t] = th, !.overlap = @ \/ Active(3 - t)]
    /\ elements' = [elements EXCEPT ![threads.path] = el]
    /\ UNCHANGED <<stream, pos, status, families, last, rle, image, registry>>

\* thread t raises err out of parsed
ThreadRaises(th, err) == [th EXCEPT !.pc = "done", !.err = err]

\* `return self._parsed` in the try block of parsed: without the attribute,
\* the except block is entered
T_try(t, th, el) ==
    /\ th.pc = "try"
    /\ ThreadStep(t, IF HasParsed(el)
                     THEN [th EXCEPT !.pc = "done", !.value = el.parsed]
                     ELSE [th EXCEPT !.pc = "hasattr"], el)
    /\ UNCHANGED nobj

\* `if hasattr(self, '_m_data_parsed'): return self._m_data_parsed` at the
\* top of data_parsed
T_hasattr(t, th, el) ==
    /\ th.pc = "hasattr"
    /\ ThreadStep(t, IF el.m_data_parsed # Unset
                     THEN [th EXCEPT !.pc = "from_ks", !.struct = el.m_data_parsed]
                     ELSE [th EXCEPT !.pc = "pos"], el)
    /\ UNCHANGED nobj

\* `_pos = io.pos()`
T_pos(t, th, el) ==
    /\ th.pc = "pos"
    /\ ThreadStep(t, [th EXCEPT !.pc = "seek", !.saved_pos = el.io_pos], el)
    /\ UNCHANGED nobj

\* `io.seek(0)`
T_seek(t, th, el) ==
    /\ th.pc = "seek"
    /\ ThreadStep(t, [th EXCEPT !.pc = "read", !.reads = <<>>], [el EXCEPT !.io_pos = 0])
    /\ UNCHANGED nobj

\* thread t has made the read r of the constructor of case k: the stream is
\* where the read left it; an error leaves data_parsed and parsed
T_read_of(t, th, el, k, rs, r) ==
    ThreadStep(t,
        IF ConstructorError(k, rs) # NoError
        THEN ThreadRaises([th EXCEPT !.reads = rs], ConstructorError(k, rs))
        ELSE [th EXCEPT !.reads = rs,
                        !.pc = IF Len(rs) = Len(Reads(k)) THEN "assign" ELSE "read"],
        [el EXCEPT !.io_pos = r.pos])

\* the next read of the constructor that the switch of data_parsed selects
T_read(t, th, el) ==
    /\ th.pc = "read"
    /\ T_read_of(t, th, el, data_parsed_case(as_enum(el.type)),
           Append(th.reads,
                  ThreadRead(el.data, el.io_pos,
                             Reads(data_parsed_case(as_enum(el.type)))[Len(th.reads) + 1])),
           ThreadRead(el.data, el.io_pos,
                      Reads(data_parsed_case(as_enum(el.type)))[Len(th.reads) + 1]))
    /\ UNCHANGED nobj

\* `self._m_data_parsed = ...`: the struct the constructor has returned
T_assign(t, th, el) ==
    /\ th.pc = "assign"
    /\ ThreadStep(t, [th EXCEPT !.pc = "seek_back"],
           [el EXCEPT !.m_data_parsed =
               ConstructorStruct(data_parsed_case(as_enum(el.type)), th.reads)])
    /\ UNCHANGED nobj

\* a data_parsed that leaves the stream at its start
seek_back_to_start(saved_pos) == 0

\* the position that `io.seek(_pos)` sets
seek_back(saved_pos) == saved_pos

\* `io.seek(_pos)`
T_seek_back(t, th, el) ==
    /\ th.pc = "seek_back"
    /\ ThreadStep(t, [th EXCEPT !.pc = "is_eof"],
                  [el EXCEPT !.io_pos = seek_back(th.saved_pos)])
    /\ UNCHANGED nobj

\* `if not self._io.is_eof(): raise ...`, self._io being the stream of the
\* enclosing element, and `return self._m_data_parsed`
T_is_eof(t, th, el) ==
    /\ th.pc = "is_eof"
    /\ ThreadStep(t,
           IF ~is_eof(elements[Front(threads.path)].data,
                      elements[Front(threads.path)].io_pos)
           THEN ThreadRaises(th, "ValidationExprError(data_parsed)")
           ELSE [th EXCEPT !.pc = "from_ks", !.struct = el.m_data_parsed], el)
    /\ UNCHANGED nobj

\* thread t has built obj of its struct: `self._parsed = ....from_ks(...)`,
\* or the AssertionError of the else branch
T_from_ks_of(t, th, el, obj) ==
    IF obj = Unset
    THEN ThreadStep(t, ThreadRaises(th, "AssertionError"), el) /\ UNCHANGED nobj
    ELSE /\ ThreadStep(t, [th EXCEPT !.pc = "return"], [el EXCEPT !.parsed = obj])
         /\ nobj' = nobj + 1

T_from_ks(t, th, el) ==
    /\ th.pc = "from_ks"
    /\ T_from_ks_of(t, th, el, ParsedFromStruct(th.struct, nobj + 1))

\* `return self._parsed` at the end of the except block
T_return(t, th, el) ==
    /\ th.pc = "return"
    /\ ThreadStep(t, [th EXCEPT !.pc = "done", !.value = el.parsed], el)
    /\ UNCHANGED nobj

\* a step of thread t in element.parsed, once the family is decoded
Thread(t) ==
    /\ status = "ok"
    /\ threads.path \in DOMAIN elements
    /\ \/ T_try(t, threads.t[t], elements[threads.path])
       \/ T_hasattr(t, threads.t[t], elements[threads.path])
       \/ T_pos(t, threads.t[t], elements[threads.path])
       \/ T_seek(t, threads.t[t], elements[threads.path])
       \/ T_read(t, threads.t[t], elements[threads.path])
       \/ T_assign(t, threads.t[t], elements[threads.path])
       \/ T_seek_back(t, threads.t[t], elements[threads.path])
       \/ T_is_eof(t, threads.t[t], elements[threads.path])
       \/ T_from_ks(t, threads.t[t], elements[threads.path])
       \/ T_return(t, threads.t[t], elements[threads.path])

\* the family that from_stream returns, or the error it raises
Returns(err, d) == [err |-> err, elements |-> d]

\* IconFamily.from_ks(root_element.data_parsed), dp being the outcome of
\* data_parsed
from_stream_parsed(dp) ==
    IF dp.err # NoError THEN Returns(dp.err, [keys |-> <<>>, vals |-> <<>>])
    ELSE Returns(NoError, IconFamily_from_ks(dp.struct))

\* Icns._read has read the element e of the bytes s
from_stream_read(s, e) ==
    IF e.err # NoError THEN Returns(e.err, [keys |-> <<>>, vals |-> <<>>])
    ELSE IF as_enum(e.type) # main_family
    THEN Returns("ValidationExprError(/seq/0)", [keys |-> <<>>, vals |-> <<>>])
    ELSE from_stream_parsed(data_parsed(IconFamilyElement_from_ks(ElementStruct(e)),
                                        is_eof(s, e.pos)))

\* IconFamily.from_stream(io.BytesIO(s))
from_stream(s) == from_stream_read(s, IconFamilyElement_read(s, 0))

(***************************************************************************)
Init ==
    /\ stream \in Streams
    /\ pos = 0
    /\ status = "new"
    /\ elements = <<>>
    /\ families = <<>>
    /\ last = NoAccess
    /\ nobj = 0
    /\ rle = NoPackbits
    /\ image = NoIcon
    /\ registry = Imported
    /\ threads = NoThreads

Next ==
    \/ FromStream
    \/ \E p \in DOMAIN elements : Parsed(p)
    \/ \E p \in DOMAIN elements : ExtractIconFamily(p)

Spec == Init /\ [][Next]_vars

\* decompression alone, on every compressed input
InitRle ==
    /\ stream = <<>>
    /\ pos = 0
    /\ status = "new"
    /\ elements = <<>>
    /\ families = <<>>
    /\ last = NoAccess
    /\ nobj = 0
    /\ rle \in {NewPackbits(c) : c \in CompressedInputs}
    /\ image = NoIcon
    /\ registry = Imported
    /\ threads = NoThreads

NextRle == Uncompressed

SpecRle == InitRle /\ [][NextRle]_vars

\* uncompressed image data of n bytes, every byte another
Ramp(n) == [i \in 1..n |-> 10 + i]

\* data as one literal chunk
LiteralOf(data) == IF data = <<>> THEN <<>> ELSE <<Len(data) - 1>> \o data

\* the compressed data of generated images: every length up to one more
\* than the longest image takes, as one literal chunk and as a repeat chunk
\* and a literal chunk, and data that end inside a chunk
ImageCompressed ==
    {LiteralOf(Ramp(n)) : n \in 0..(4 * MaxSide * MaxSide + 1)}
        \cup {<<128, 7>> \o LiteralOf(Ramp(n)) : n \in 0..(4 * MaxSide * MaxSide - 2)}
        \cup {<<5, 11, 12>>, <<130>>}

ImageResolutions == {<<w, h, 1>> : w \in 1..MaxSide, h \in 1..MaxSide}

\* a mask image of a size: what Icon8BitMask.to_pil_image returns
MaskOf(size) ==
    [mode |-> "L", size |-> size, bands |-> <<[i \in 1..(size[1] * size[2]) |-> 200 + i]>>]

\* the masks an IconRGB of a resolution is converted with: none, one of its
\* size, one of another size
MasksFor(resolution) ==
    {NoImage, MaskOf(pixel_size(resolution)),
     MaskOf(<<pixel_width(resolution) + 1, pixel_height(resolution)>>)}

\* conversion of IconRGB and IconARGB objects of every generated
\* resolution and compressed data
InitImage ==
    /\ stream = <<>>
    /\ pos = 0
    /\ status = "new"
    /\ elements = <<>>
    /\ families = <<>>
    /\ last = NoAccess
    /\ nobj = 0
    /\ rle \in {NewPackbits(c) : c \in ImageCompressed}
    /\ image \in {NewIcon("IconRGB", r, m) : r \in ImageResolutions,
                                             m \in UNION {MasksFor(x) : x \in ImageResolutions}}
                    \cup {NewIcon("IconARGB", r, NoImage) : r \in ImageResolutions}
    /\ registry = Imported
    /\ threads = NoThreads

NextImage == ToPilImageRGB \/ ToPilImageARGB

SpecImage == InitImage /\ [][NextImage]_vars

(***************************************************************************)
(* The format read off the bytes themselves, for stating the properties:   *)
(* the operators on bytes use none of the reader above.                    *)
(***************************************************************************)
\* the 4 bytes at offset p of s
TypeAt(s, p) == SubSeq(s, p + 1, p + 4)

\* the 4 bytes at offset p + 4 of s as a big-endian unsigned number
LenAt(s, p) == ((s[p + 5] * 256 + s[p + 6]) * 256 + s[p + 7]) * 256 + s[p + 8]

\* s holds at offset p a complete element: 8 bytes of header, a declared
\* length of 8 or more, and the bytes of the body
CompleteAt(s, p) ==
    /\ Len(s) - p >= 8
    /\ LenAt(s, p) >= 8
    /\ p + LenAt(s, p) <= Len(s)

\* how a family body splits into children from offset p: "ok" when complete
\* children fill it, else what is wrong with the first bytes that are not a
\* complete child
RECURSIVE Scan(_, _)
Scan(s, p) ==
    IF p = Len(s) THEN "ok"
    ELSE IF Len(s) - p < 8 THEN "short header"
    ELSE IF LenAt(s, p) < 8 THEN "invalid length"
    ELSE IF p + LenAt(s, p) > Len(s) THEN "truncated body"
    ELSE Scan(s, p + LenAt(s, p))

\* the complete children of s from offset p, in order
RECURSIVE RefChildren(_, _)
RefChildren(s, p) ==
    IF ~CompleteAt(s, p) THEN <<>>
    ELSE <<[type |-> TypeAt(s, p), len_element |-> LenAt(s, p),
            data |-> SubSeq(s, p + 9, p + LenAt(s, p))]>>
         \o RefChildren(s, p + LenAt(s, p))

\* the type codes of the children kids in the order of their first appearance
RECURSIVE FirstAppearances(_, _)
FirstAppearances(kids, seen) ==
    IF kids = <<>> THEN seen
    ELSE FirstAppearances(Tail(kids),
             IF \E i \in 1..Len(seen) : seen[i] = Head(kids).type
             THEN seen ELSE Append(seen, Head(kids).type))

\* the last of the children kids that has the type code k
LastOfType(kids, k) ==
    kids[CHOOSE i \in 1..Len(kids) :
            /\ kids[i].type = k
            /\ \A j \in (i + 1)..Len(kids) : kids[j].type # k]

\* from_stream has run
Decoded == status # "new"

\* the stream holds a complete top-level element of type 'icns'
IcnsAtTop == CompleteAt(stream, 0) /\ TypeAt(stream, 0) = TC_icns

\* the body of the top-level element
TopBody == SubSeq(stream, 9, LenAt(stream, 0))

\* the last step read element.parsed of the element at path p
Accessed(p) == last.op \in {"parsed", "extract_icon_family"} /\ last.path = p

\* the element at path p has the type code of an icon family
IsFamilyType(p) == by_typecode_get(elements[p].type).data_type = "icon_family"

(***************************************************************************)
(* C1: unknown type codes.                                                 *)
(***************************************************************************)
\* C1: for every element whose type code is not registered, an access to
\* parsed returns without raising, the payload is an Unknown payload, and
\* the element's data are the body bytes of the input
C1_UnknownTypeResolves ==
    \A p \in DOMAIN elements :
        (/\ p # <<>>
         /\ Accessed(p)
         /\ elements[p].type \notin RegisteredTypeCodes)
        => /\ last.err = NoError
           /\ last.value.cls = "Unknown"
           /\ elements[p].data = LastOfType(RefChildren(elements[Front(p)].data, 0),
                                            elements[p].type).data

(***************************************************************************)
(* C2: bytes after the top-level element.                                  *)
(***************************************************************************)
\* C2: when the stream holds a well-formed top-level 'icns' element and
\* then more bytes, from_stream returns the family and leaves the stream
\* just after the element
C2_TrailingBytesAccepted ==
    (/\ Decoded
     /\ IcnsAtTop
     /\ Scan(TopBody, 0) = "ok"
     /\ LenAt(stream, 0) < Len(stream))
    => /\ status = "ok"
       /\ <<>> \in DOMAIN families
       /\ pos = LenAt(stream, 0)

(***************************************************************************)
(* C3: the type of the top-level element.                                  *)
(***************************************************************************)
\* C3 as stated: every stream whose first 4 bytes are a type code other
\* than 'icns' fails with the validation error of Icns._read
C3_NotIcnsAlwaysValidationError ==
    (/\ Decoded
     /\ Len(stream) >= 4
     /\ TypeAt(stream, 0) # TC_icns)
    => /\ status = "ValidationExprError(/seq/0)"
       /\ families = <<>>

\* C3: a stream whose top-level element is complete and has a type code
\* other than 'icns' fails with the validation error of Icns._read; a
\* stream whose first 4 bytes are not 'icns' never yields a family, and when
\* its top-level element is not complete it fails with the error of reading
\* that element
C3_NotIcnsIsRejected ==
    /\ (Decoded /\ CompleteAt(stream, 0) /\ TypeAt(stream, 0) # TC_icns)
       => /\ status = "ValidationExprError(/seq/0)"
          /\ pos = LenAt(stream, 0)
    /\ (Decoded /\ Len(stream) >= 4 /\ TypeAt(stream, 0) # TC_icns)
       => /\ status \in {"ValidationExprError(/seq/0)", "EOFError", "ValueError"}
          /\ families = <<>>
          /\ elements = <<>>
    /\ (Decoded /\ status = "ValidationExprError(/seq/0)")
       => CompleteAt(stream, 0) /\ TypeAt(stream, 0) # TC_icns

\* C3: a well-formed 'tile' family with one child was rejected for its type
C3_Witness ==
    /\ status = "ValidationExprError(/seq/0)"
    /\ TypeAt(stream, 0) = TC_tile
    /\ Scan(TopBody, 0) = "ok"
    /\ Len(RefChildren(TopBody, 0)) = 1
    /\ LenAt(stream, 0) = Len(stream)

(***************************************************************************)
(* C4: truncated elements.                                                 *)
(***************************************************************************)
\* C4: an element whose header declares a length L >= 8 with fewer than
\* L - 8 bytes after the header fails with EOFError, at the top of the
\* stream and inside a family body; every element there is has a body of
\* exactly L - 8 bytes
C4_TruncationDetected ==
    /\ (/\ Decoded
        /\ Len(stream) >= 8
        /\ LenAt(stream, 0) >= 8
        /\ LenAt(stream, 0) > Len(stream))
       => status = "EOFError" /\ elements = <<>> /\ families = <<>>
    /\ (Decoded /\ IcnsAtTop /\ LenAt(stream, 0) = Len(stream)
          /\ Scan(TopBody, 0) = "truncated body")
       => status = "EOFError" /\ families = <<>>
    /\ \A p \in DOMAIN elements :
          /\ Len(elements[p].data) = elements[p].len_element - 8
          /\ (p # <<>> /\ Accessed(p) /\ IsFamilyType(p)
                /\ Scan(elements[p].data, 0) = "truncated body")
             => last.err = "EOFError" /\ p \notin DOMAIN families

\* C4: the resolution of a nested family whose child declares more bytes
\* than its body holds failed with EOFError
C4_Witness ==
    \E p \in DOMAIN elements :
        /\ p # <<>> /\ Accessed(p) /\ IsFamilyType(p)
        /\ Scan(elements[p].data, 0) = "truncated body"
        /\ last.err = "EOFError"

(***************************************************************************)
(* C5: declared lengths below 8.                                           *)
(***************************************************************************)
\* C5: an element whose header declares a length of 0..7 fails with the
\* ValueError of read_bytes, at the top of the stream and inside a family
\* body; no element there is has a declared length below 8
C5_InvalidLengthRejected ==
    /\ (Decoded /\ Len(stream) >= 8 /\ LenAt(stream, 0) < 8)
       => status = "ValueError" /\ elements = <<>> /\ families = <<>>
    /\ (Decoded /\ IcnsAtTop /\ LenAt(stream, 0) = Len(stream)
          /\ Scan(TopBody, 0) = "invalid length")
       => status = "ValueError" /\ families = <<>>
    /\ \A p \in DOMAIN elements :
          /\ elements[p].len_element >= 8
          /\ Len(elements[p].data) >= 0
          /\ (p # <<>> /\ Accessed(p) /\ IsFamilyType(p)
                /\ Scan(elements[p].data, 0) = "invalid length")
             => last.err = "ValueError" /\ p \notin DOMAIN families

\* C5: a top-level 'icns' header declaring a length of 0 or 7 failed
C5_Witness ==
    /\ status = "ValueError"
    /\ Len(stream) >= 8
    /\ LenAt(stream, 0) \in {0, 7}
    /\ TypeAt(stream, 0) = TC_icns

(***************************************************************************)
(* C6: the layout of an element.                                           *)
(***************************************************************************)
\* C6: an element read at the top of a stream that holds it whole has the
\* 4 bytes there as its type, the next 4 bytes as its big-endian length L
\* and the next L - 8 bytes as its data, and the stream is left at L; the
\* children read from a family body are the elements laid back to back in
\* it, each starting where the one before ended
C6_ElementLayout ==
    /\ (Decoded /\ CompleteAt(stream, 0)) => pos = LenAt(stream, 0)
    /\ (Decoded /\ IcnsAtTop /\ LenAt(stream, 0) = Len(stream) /\ Scan(TopBody, 0) = "ok")
       => status = "ok"
    /\ status = "ok"
       => /\ CompleteAt(stream, 0)
          /\ elements[<<>>].type = TypeAt(stream, 0)
          /\ elements[<<>>].len_element = LenAt(stream, 0)
          /\ elements[<<>>].data = TopBody
    /\ \A p \in DOMAIN elements :
          elements[p].m_data_parsed.cls = "IconFamilyData"
          => /\ elements[p].m_data_parsed.elements = RefChildren(elements[p].data, 0)
             /\ Scan(elements[p].data, 0) = "ok"

\* C6: a family of three children with bodies of different lengths was read
C6_Witness ==
    /\ status = "ok"
    /\ Len(elements[<<>>].m_data_parsed.elements) = 3
    /\ \E i, j \in 1..3 :
          /\ elements[<<>>].m_data_parsed.elements[i].len_element = 8
          /\ elements[<<>>].m_data_parsed.elements[j].len_element > 8

(***************************************************************************)
(* C7: a family body is filled by its children.                            *)
(***************************************************************************)
\* C7: a family is resolved only from a body that complete children fill;
\* when bytes are left that are no complete child, from_stream (for the
\* top-level family) and parsed (for a nested family) raise
C7_BodyConsumedExactly ==
    /\ \A p \in DOMAIN families : Scan(elements[p].data, 0) = "ok"
    /\ (Decoded /\ IcnsAtTop /\ Scan(TopBody, 0) # "ok")
       => /\ status \in {"EOFError", "ValueError"}
          /\ families = <<>>
    /\ \A p \in DOMAIN elements :
          (p # <<>> /\ Accessed(p) /\ IsFamilyType(p) /\ Scan(elements[p].data, 0) # "ok")
          => /\ last.err \in {"EOFError", "ValueError"}
             /\ p \notin DOMAIN families
             /\ elements[p].parsed = Unset

\* C7: a nested family whose body holds a complete child and then bytes
\* that are no complete child was not resolved
C7_Witness ==
    \E p \in DOMAIN elements :
        /\ p # <<>> /\ Accessed(p) /\ IsFamilyType(p)
        /\ Len(RefChildren(elements[p].data, 0)) >= 1
        /\ Scan(elements[p].data, 0) = "short header"
        /\ last.err = "EOFError"
        /\ p \notin DOMAIN families

(***************************************************************************)
(* C8: children with the same type code.                                   *)
(***************************************************************************)
\* the family at path p, with the elements keys in this order, is what the
\* children kids of its body make: the type codes in the order of first
\* appearance, each once, and under each the last child with that code
FamilyOfChildren(p, keys, kids) ==
    /\ keys = FirstAppearances(kids, <<>>)
    /\ \A i, j \in 1..Len(keys) : keys[i] = keys[j] => i = j
    /\ \A i \in 1..Len(keys) :
          /\ Append(p, keys[i]) \in DOMAIN elements
          /\ elements[Append(p, keys[i])].type = keys[i]
          /\ elements[Append(p, keys[i])].data = LastOfType(kids, keys[i]).data

\* C8: the elements of a resolved family have the type codes of the
\* children of its body in the order of first appearance, each once, and
\* the element under a type code is the last child with that code
C8_DuplicateLastWins ==
    \A p \in DOMAIN families :
        FamilyOfChildren(p, families[p].elements, RefChildren(elements[p].data, 0))

\* the children of the top-level family
TopChildren == RefChildren(elements[<<>>].data, 0)

\* C8: a family was read whose first and third child have one type code and
\* different data, with a child of another type code between them
C8_Witness ==
    /\ status = "ok"
    /\ Len(TopChildren) = 3
    /\ TopChildren[1].type = TopChildren[3].type
    /\ TopChildren[1].data # TopChildren[3].data
    /\ TopChildren[2].type # TopChildren[1].type
    /\ families[<<>>].elements = <<TopChildren[1].type, TopChildren[2].type>>
    /\ elements[<<TopChildren[1].type>>].data = TopChildren[3].data

(***************************************************************************)
(* C9: payloads are resolved on access and kept.                           *)
(***************************************************************************)
\* has the element at path p a payload
Resolved(p) == elements[p].parsed # Unset

\* the element at path p has not been touched since it was read
Untouched(p) ==
    /\ elements[p].parsed = Unset
    /\ elements[p].m_data_parsed = Unset
    /\ elements[p].accesses = 0

\* from_stream builds no payload and leaves every child as it was read; the
\* payloads there are were each built once, by an access to their element
C9_Lazy ==
    /\ last.op = "from_stream" =>
          /\ nobj = 0
          /\ \A p \in DOMAIN elements : p # <<>> => Untouched(p)
    /\ nobj = Cardinality({p \in DOMAIN elements : Resolved(p)})
    /\ \A p \in DOMAIN elements :
          /\ Resolved(p) => elements[p].accesses >= 1
          /\ (Accessed(p) /\ last.err = NoError) => last.value = elements[p].parsed
    /\ \A p, q \in DOMAIN elements :
          (Resolved(p) /\ Resolved(q) /\ elements[p].parsed.obj = elements[q].parsed.obj)
          => p = q

\* an access touches the element accessed and no other; the elements it
\* adds (the children of a nested family) are as they were read; a payload
\* that is there stays as it is, and an access to its element returns it
\* and builds nothing
C9_Memoized ==
    /\ \A q \in DOMAIN elements' :
          /\ (q \notin DOMAIN elements /\ q # <<>>) => Untouched(q)'
          /\ (q \in DOMAIN elements /\ ~Accessed(q)') => elements'[q] = elements[q]
    /\ \A p \in DOMAIN elements :
          Resolved(p) =>
             /\ p \in DOMAIN elements'
             /\ elements'[p].parsed = elements[p].parsed
             /\ elements'[p].accesses > elements[p].accesses =>
                   /\ Accessed(p)'
                   /\ last'.err = NoError
                   /\ last'.value = elements[p].parsed
                   /\ nobj' = nobj
                   /\ families' = families
                   /\ elements' = [elements EXCEPT ![p].accesses = @ + 1]

\* C9: decoding a family resolves no child; a payload is built at most once,
\* on the first access to parsed that returns; every later access returns
\* that payload, which does not change
C9_LazyAndMemoized == [](C9_Lazy) /\ [][C9_Memoized]_vars

\* C9: an element was accessed twice and holds the one payload built, and
\* a child of a type that is not registered sits untouched beside it
C9_Witness ==
    /\ status = "ok"
    /\ nobj = 1
    /\ \E p, q \in DOMAIN elements :
          /\ Len(p) = 1 /\ Len(q) = 1
          /\ elements[p].accesses = 2
          /\ Resolved(p)
          /\ Accessed(p)
          /\ last.value = elements[p].parsed
          /\ Untouched(q)
          /\ elements[q].type = TC_zzzz

(***************************************************************************)
(* C10: decompression.                                                     *)
(***************************************************************************)
\* is s from index i a sequence of complete chunks
RECURSIVE WellFormedRle(_, _)
WellFormedRle(s, i) ==
    IF i > Len(s) THEN TRUE
    ELSE IF s[i] >= 128 THEN i + 1 <= Len(s) /\ WellFormedRle(s, i + 2)
    ELSE i + 1 + s[i] <= Len(s) /\ WellFormedRle(s, i + 2 + s[i])

\* the output of the chunks of s from index i: for a tag t >= 128 the next
\* byte t - 125 times, for a tag t < 128 the next t + 1 bytes
RECURSIVE RefDecode(_, _)
RefDecode(s, i) ==
    IF i > Len(s) THEN <<>>
    ELSE IF s[i] >= 128
    THEN [k \in 1..(s[i] - 125) |-> s[i + 1]] \o RefDecode(s, i + 2)
    ELSE SubSeq(s, i + 1, i + 1 + s[i]) \o RefDecode(s, i + 2 + s[i])

\* C10: for a well-formed compressed input an access to uncompressed
\* returns the outputs of its chunks in order, every chunk to the end of the
\* input read; 02 a b c gives a b c and 83 FF gives six FF
C10_Decompression ==
    /\ (rle.accesses > 0 /\ WellFormedRle(rle.compressed, 1))
       => /\ rle.err = NoError
          /\ rle.has_uncompressed
          /\ rle.uncompressed = RefDecode(rle.compressed, 1)
    /\ (rle.accesses > 0 /\ rle.compressed = <<2, 65, 66, 67>>)
       => rle.uncompressed = <<65, 66, 67>> /\ rle.n_chunks = 1
    /\ (rle.accesses > 0 /\ rle.compressed = <<131, 255>>)
       => rle.uncompressed = <<255, 255, 255, 255, 255, 255>> /\ rle.n_chunks = 1
    /\ rle.has_uncompressed => WellFormedRle(rle.compressed, 1)

\* C10: a repeat chunk, a literal chunk and a repeat chunk were decompressed
C10_Witness ==
    /\ rle.has_uncompressed
    /\ rle.n_chunks = 3
    /\ rle.compressed = <<131, 255, 2, 65, 66, 67, 128, 7>>
    /\ rle.uncompressed = <<255, 255, 255, 255, 255, 255, 65, 66, 67, 7, 7, 7>>

(***************************************************************************)
(* C11: compressed data that end inside a chunk.                           *)
(***************************************************************************)
\* C11: for a compressed input that ends inside a chunk every access to
\* uncompressed raises EOFError; no output is returned and none is kept, so
\* the next access fails the same way
C11_TruncatedCompressed ==
    /\ (rle.accesses > 0 /\ ~WellFormedRle(rle.compressed, 1))
       => /\ rle.err = "EOFError"
          /\ ~rle.has_uncompressed
          /\ rle.uncompressed = <<>>
    /\ rle.err # NoError => ~WellFormedRle(rle.compressed, 1)

\* C11: a literal tag of 3 bytes followed by 1 byte, after a complete
\* chunk, failed on both accesses
C11_Witness ==
    /\ rle.accesses = 2
    /\ rle.compressed = <<131, 255, 2, 65>>
    /\ rle.err = "EOFError"
    /\ ~rle.has_uncompressed
    /\ rle.n_chunks = 1

\* C11: a repeat tag with no byte to repeat failed
C11_WitnessRepeat ==
    /\ rle.accesses > 0
    /\ rle.compressed = <<131>>
    /\ rle.err = "EOFError"
    /\ ~rle.has_uncompressed

(***************************************************************************)
(* C12, C13: the length and the layout of RGB and ARGB data.               *)
(***************************************************************************)
\* to_pil_image has been called
Called == image.calls > 0

\* the number of pixels of the image object
Pixels == pixel_width(image.resolution) * pixel_height(image.resolution)

\* the number of channels the data of the image object hold
Channels == IF image.cls = "IconARGB" THEN 4 ELSE 3

\* the uncompressed data of the image object, decoded chunk by chunk
ImageData == RefDecode(rle.compressed, 1)

\* C12: to_pil_image of an IconRGB fails whenever the uncompressed data
\* are not 3*W*H bytes long, and of an IconARGB whenever they are not
\* 4*W*H bytes long, be they shorter or longer
C12_LengthMismatchRejected ==
    (/\ Called
     /\ WellFormedRle(rle.compressed, 1)
     /\ Len(ImageData) # Channels * Pixels)
    => image.err # NoError /\ image.im = NoImage

\* what holds of the lengths: data shorter than the channels take fail with
\* the ValueError of PIL.Image.frombytes; data of that length or longer are
\* converted, the bytes after the last channel unused
C12_ShortRejectedLongAccepted ==
    /\ (Called /\ WellFormedRle(rle.compressed, 1) /\ Len(ImageData) < Channels * Pixels)
       => image.err = "ValueError" /\ image.im = NoImage
    /\ (Called /\ WellFormedRle(rle.compressed, 1) /\ Len(ImageData) >= Channels * Pixels
          /\ image.mask \in {NoImage, MaskOf(pixel_size(image.resolution))})
       => image.err = NoError /\ image.im.size = pixel_size(image.resolution)

\* an IconRGB with one byte more than 3*W*H was converted
C12_LongAccepted ==
    /\ Called
    /\ image.cls = "IconRGB"
    /\ WellFormedRle(rle.compressed, 1)
    /\ Len(ImageData) = 3 * Pixels + 1
    /\ image.err = NoError

\* C13: the image to_pil_image returns has, for pixel i in row-major order
\* and data d, from an IconRGB R = d[i], G = d[W*H + i], B = d[2*W*H + i]
\* (and the mask's byte as alpha when a mask is given), from an IconARGB
\* A = d[i], R = d[W*H + i], G = d[2*W*H + i], B = d[3*W*H + i]
C13_PlanarChannels ==
    (Called /\ image.err = NoError)
    => /\ image.im.size = pixel_size(image.resolution)
       /\ \A b \in 1..Len(image.im.bands) : Len(image.im.bands[b]) = Pixels
       /\ image.cls = "IconRGB"
          => /\ image.im.mode = (IF image.mask = NoImage THEN "RGB" ELSE "RGBA")
             /\ Len(image.im.bands) = (IF image.mask = NoImage THEN 3 ELSE 4)
             /\ \A i \in 1..Pixels :
                   /\ image.im.bands[1][i] = ImageData[i]
                   /\ image.im.bands[2][i] = ImageData[Pixels + i]
                   /\ image.im.bands[3][i] = ImageData[2 * Pixels + i]
                   /\ image.mask # NoImage => image.im.bands[4][i] = image.mask.bands[1][i]
       /\ image.cls = "IconARGB"
          => /\ image.im.mode = "RGBA"
             /\ Len(image.im.bands) = 4
             /\ \A i \in 1..Pixels :
                   /\ image.im.bands[4][i] = ImageData[i]
                   /\ image.im.bands[1][i] = ImageData[Pixels + i]
                   /\ image.im.bands[2][i] = ImageData[2 * Pixels + i]
                   /\ image.im.bands[3][i] = ImageData[3 * Pixels + i]

\* C13: a 2 x 2 IconRGB with 12 bytes of data, every byte another, was
\* converted: the red channel holds the first four bytes
C13_Witness ==
    /\ Called
    /\ image.cls = "IconRGB"
    /\ image.resolution = <<2, 2, 1>>
    /\ rle.uncompressed = Ramp(12)
    /\ image.err = NoError
    /\ image.im.bands = <<<<11, 12, 13, 14>>, <<15, 16, 17, 18>>, <<19, 20, 21, 22>>>>

\* a 2 x 1 IconARGB with 8 bytes of data was converted: alpha comes first in
\* the data and last in the image
C13_WitnessARGB ==
    /\ Called
    /\ image.cls = "IconARGB"
    /\ image.resolution = <<2, 1, 1>>
    /\ rle.uncompressed = Ramp(8)
    /\ image.err = NoError
    /\ image.im.bands = <<<<13, 14>>, <<15, 16>>, <<17, 18>>, <<11, 12>>>>

(***************************************************************************)
(* C14: the signature of ARGB data and the zero prefix of 'it32'.          *)
(***************************************************************************)
\* the registered type codes of a data type
TypeCodesOf(data_type) ==
    {t \in RegisteredTypeCodes : by_typecode_get(t).data_type = data_type}

\* the first 4 bytes of the data of the element at path p are sig
BeginsWith(p, sig) == Len(elements[p].data) >= 4 /\ SubSeq(elements[p].data, 1, 4) = sig

\* the data of the element at path p after its first 4 bytes
AfterPrefix(p) == SubSeq(elements[p].data, 5, Len(elements[p].data))

\* the last access raised err and left the element at path p without payload
RaisedAt(p, err) == last.err = err /\ ~Resolved(p)

\* C14 as stated: an access to parsed of an ARGB element whose data do not
\* begin with 'ARGB', or of 'it32' whose data do not begin with 4 zero
\* bytes, raises the signature error ValidationNotEqualError
C14_BadSignatureAlways ==
    \A p \in DOMAIN elements :
        (/\ p # <<>>
         /\ Accessed(p)
         /\ \/ elements[p].type \in TypeCodesOf("icon_argb") /\ ~BeginsWith(p, <<65, 82, 71, 66>>)
            \/ elements[p].type = TC_it32 /\ ~BeginsWith(p, <<0, 0, 0, 0>>))
        => RaisedAt(p, "ValidationNotEqualError")

\* C14: an access to parsed of an ARGB element with 4 or more bytes of data
\* that are not 'ARGB' first, or of 'it32' with 4 or more bytes that are
\* not 4 zero bytes first, raises ValidationNotEqualError; with fewer than
\* 4 bytes of data it raises EOFError; with the prefix there the payload's
\* compressed data are the bytes after it; every other RGB element has all
\* its data as compressed data
C14_Signatures ==
    \A p \in DOMAIN elements :
        (p # <<>> /\ Accessed(p)) =>
           /\ elements[p].type \in TypeCodesOf("icon_argb") =>
                 IF Len(elements[p].data) < 4 THEN RaisedAt(p, "EOFError")
                 ELSE IF ~BeginsWith(p, <<65, 82, 71, 66>>)
                 THEN RaisedAt(p, "ValidationNotEqualError")
                 ELSE /\ last.err = NoError
                      /\ last.value.cls = "IconARGB"
                      /\ last.value.argb_data = AfterPrefix(p)
           /\ elements[p].type = TC_it32 =>
                 IF Len(elements[p].data) < 4 THEN RaisedAt(p, "EOFError")
                 ELSE IF ~BeginsWith(p, <<0, 0, 0, 0>>)
                 THEN RaisedAt(p, "ValidationNotEqualError")
                 ELSE /\ last.err = NoError
                      /\ last.value.cls = "IconRGB"
                      /\ last.value.rgb_data = AfterPrefix(p)
           /\ elements[p].type \in TypeCodesOf("icon_rgb") \ {TC_it32} =>
                 /\ last.err = NoError
                 /\ last.value.cls = "IconRGB"
                 /\ last.value.rgb_data = elements[p].data

\* C14: an ARGB element whose data begin with 'ARGX' was refused
C14_Witness ==
    \E p \in DOMAIN elements :
        /\ p # <<>> /\ Accessed(p)
        /\ elements[p].type = TC_ic04
        /\ elements[p].data = <<65, 82, 71, 88, 128, 7>>
        /\ RaisedAt(p, "ValidationNotEqualError")

\* an 'it32' element had its 4 zero bytes skipped
C14_WitnessZeroPrefix ==
    \E p \in DOMAIN elements :
        /\ p # <<>> /\ Accessed(p)
        /\ elements[p].type = TC_it32
        /\ elements[p].data = <<0, 0, 0, 0, 128, 7>>
        /\ last.err = NoError
        /\ last.value.rgb_data = <<128, 7>>

\* an 'is32' element kept 4 zero bytes at the start of its compressed data
C14_WitnessNoPrefix ==
    \E p \in DOMAIN elements :
        /\ p # <<>> /\ Accessed(p)
        /\ elements[p].type = TC_is32
        /\ elements[p].data = <<0, 0, 0, 0, 128, 7>>
        /\ last.err = NoError
        /\ last.value.rgb_data = <<0, 0, 0, 0, 128, 7>>

(***************************************************************************)
(* The specification of the lookups by resolution: a family of icon        *)
(* elements is read, then icons and masks are looked up in it.             *)
(***************************************************************************)
InitLookup ==
    /\ stream \in IconStreams
    /\ pos = 0
    /\ status = "new"
    /\ elements = <<>>
    /\ families = <<>>
    /\ last = NoAccess
    /\ nobj = 0
    /\ rle = NoPackbits
    /\ image = NoIcon
    /\ registry = Imported
    /\ threads = NoThreads

NextLookup ==
    \/ FromStream
    \/ \E p \in DOMAIN families, resolution \in LookupResolutions :
           IconElementForResolution(p, resolution)
    \/ \E p \in DOMAIN families, resolution \in LookupResolutions :
           MaskElementForResolution(p, resolution)

SpecLookup == InitLookup /\ [][NextLookup]_vars

(***************************************************************************)
(* Lookups by resolution.                                                  *)
(***************************************************************************)
\* the children of the family at p that are registered icon types of the
\* resolution
IconChildrenAt(p, resolution) ==
    {q \in DOMAIN elements :
        /\ q # <<>>
        /\ Front(q) = p
        /\ elements[q].known_type.icon
        /\ elements[q].known_type.resolution = resolution}

\* the data types the family at p holds at the resolution
TypesAt(p, resolution) ==
    {elements[q].known_type.data_type : q \in IconChildrenAt(p, resolution)}

\* the rank of an icon category: 1-bit with mask < 4-bit < 8-bit < RGB <
\* ARGB < PNG or JPEG 2000; 0 for a category that is no icon
IconRank(dt) ==
    CASE dt = "icon_1_bit_with_mask" -> 1
      [] dt = "icon_4_bit" -> 2
      [] dt = "icon_8_bit" -> 3
      [] dt = "icon_rgb" -> 4
      [] dt = "icon_argb" -> 5
      [] dt \in {"icon_png_jp2_rgb", "icon_png_jp2"} -> 6
      [] OTHER -> 0

\* the last call was op and it returned an element
Returned(op) == last.op = op /\ last.err = NoError

\* the element the last lookup returned
ReturnedType == by_typecode_get(last.key)

\* C15: the best-icon lookup for a resolution returns an element of the
\* family whose registered resolution is exactly that resolution and whose
\* icon category has the highest rank among the icon categories the family
\* holds at that resolution, under 1-bit with mask < 4-bit < 8-bit < RGB <
\* ARGB < PNG or JPEG 2000; it never returns an 8-bit mask.
C15_BestIcon ==
    Returned("icon_element_for_resolution") =>
        /\ Append(last.path, last.key) \in IconChildrenAt(last.path, last.resolution)
        /\ IconRank(ReturnedType.data_type) > 0
        /\ \A dt \in TypesAt(last.path, last.resolution) :
               IconRank(dt) <= IconRank(ReturnedType.data_type)
        /\ ReturnedType.data_type # "icon_8_bit_mask"

\* an 8-bit icon, an RGB icon and an 8-bit mask at 16x16: the RGB icon
C15_Witness ==
    /\ Returned("icon_element_for_resolution")
    /\ TypesAt(last.path, last.resolution) = {"icon_8_bit", "icon_rgb", "icon_8_bit_mask"}
    /\ last.key = TC_is32

\* C16: the best-mask lookup for a resolution only ever returns an 8-bit
\* mask element or a 1-bit icon-with-mask element of the family registered
\* at exactly that resolution; it prefers the 8-bit mask when the family
\* holds both, and it never returns an ARGB or PNG/JPEG 2000 element.
C16_BestMask ==
    Returned("mask_element_for_resolution") =>
        /\ Append(last.path, last.key) \in IconChildrenAt(last.path, last.resolution)
        /\ ReturnedType.data_type \in {"icon_8_bit_mask", "icon_1_bit_with_mask"}
        /\ "icon_8_bit_mask" \in TypesAt(last.path, last.resolution)
               => ReturnedType.data_type = "icon_8_bit_mask"
        /\ ReturnedType.data_type
               \notin {"icon_argb", "icon_png_jp2_rgb", "icon_png_jp2"}

\* a 1-bit icon with mask, an 8-bit mask and an ARGB icon at 16x16: the
\* 8-bit mask
C16_Witness ==
    /\ Returned("mask_element_for_resolution")
    /\ TypesAt(last.path, last.resolution)
           = {"icon_1_bit_with_mask", "icon_8_bit_mask", "icon_argb"}
    /\ last.key = TC_s8mk

\* an ARGB and a PNG icon at 16x16 with a 1-bit icon with mask: the 1-bit
\* element is the mask
C16_WitnessOneBit ==
    /\ Returned("mask_element_for_resolution")
    /\ TypesAt(last.path, last.resolution)
           = {"icon_1_bit_with_mask", "icon_png_jp2_rgb", "icon_argb"}
    /\ last.key = TC_ics1

\* the mask categories: the 8-bit mask and the 1-bit icon with mask
IsMaskCategory(dt) == dt \in {"icon_8_bit_mask", "icon_1_bit_with_mask"}

\* the last call was the lookup op and it raised KeyError
KeyErrorOf(op) == last.op = op /\ last.err = "KeyError"

\* C17: the best-icon and the best-mask lookup fail with KeyError exactly
\* when the family holds no element of a ranked category at the requested
\* resolution: a family whose only icon is a 1-bit icon with mask at one
\* resolution fails both lookups for every other resolution, and an
\* element of an unranked category at the resolution does not satisfy the
\* lookup.
C17_KeyErrorExactly ==
    /\ last.op = "icon_element_for_resolution" =>
           /\ last.err \in {NoError, "KeyError"}
           /\ last.err = "KeyError" <=>
                  \A dt \in TypesAt(last.path, last.resolution) : IconRank(dt) = 0
    /\ last.op = "mask_element_for_resolution" =>
           /\ last.err \in {NoError, "KeyError"}
           /\ last.err = "KeyError" <=>
                  \A dt \in TypesAt(last.path, last.resolution) : ~IsMaskCategory(dt)

\* the family of the one 32x32 1-bit icon with mask, asked for the mask of
\* another resolution
C17_Witness ==
    /\ KeyErrorOf("mask_element_for_resolution")
    /\ families[last.path].elements = <<TC_ICN1>>
    /\ last.resolution # <<32, 32, 1>>

\* the same family asked for the icon of another resolution
C17_WitnessIcon ==
    /\ KeyErrorOf("icon_element_for_resolution")
    /\ families[last.path].elements = <<TC_ICN1>>
    /\ last.resolution # <<32, 32, 1>>

\* an 8-bit mask at the resolution does not make an icon, an RGB icon does
\* not make a mask
C17_WitnessUnranked ==
    \/ /\ KeyErrorOf("icon_element_for_resolution")
       /\ TypesAt(last.path, last.resolution) = {"icon_8_bit_mask"}
    \/ /\ KeyErrorOf("mask_element_for_resolution")
       /\ TypesAt(last.path, last.resolution) = {"icon_rgb", "icon_argb"}

(***************************************************************************)
(* The specification of the images by resolution: a family of icon         *)
(* elements is read, then icon and mask images are asked of it.            *)
(***************************************************************************)
NextIconImage ==
    \/ FromStream
    \/ \E p \in DOMAIN families, resolution \in LookupResolutions :
           IconImageForResolution(p, resolution)
    \/ \E p \in DOMAIN families, resolution \in LookupResolutions :
           MaskImageForResolution(p, resolution)

SpecIconImage == InitLookup /\ [][NextIconImage]_vars

(***************************************************************************)
(* Images by resolution.                                                   *)
(***************************************************************************)
\* the child of the family at p registered with the data type dt at the
\* resolution
ChildOfType(p, resolution, dt) ==
    CHOOSE q \in IconChildrenAt(p, resolution) : elements[q].known_type.data_type = dt

\* the icon category of the highest rank at the resolution
BestIconCategory(p, resolution) ==
    CHOOSE dt \in TypesAt(p, resolution) :
        \A other \in TypesAt(p, resolution) : IconRank(other) <= IconRank(dt)

\* the categories whose icons carry their own alpha channel
OwnAlpha == {"icon_1_bit_with_mask", "icon_argb", "icon_png_jp2_rgb", "icon_png_jp2"}

\* the pixels of a 1-bit bitmap whose rows are whole bytes
BitsOf(data) ==
    [i \in 1..(8 * Len(data)) |->
        IF (data[((i - 1) \div 8) + 1] \div (2 ^ (7 - ((i - 1) % 8)))) % 2 = 1
        THEN 255 ELSE 0]

\* the alpha values of the best mask of the resolution: the bytes of the
\* 8-bit mask if the family holds one, else the mask half of the 1-bit icon
\* with mask
BestMaskBand(p, resolution) ==
    IF "icon_8_bit_mask" \in TypesAt(p, resolution)
    THEN elements[ChildOfType(p, resolution, "icon_8_bit_mask")].data
    ELSE BitsOf(SubSeq(elements[ChildOfType(p, resolution, "icon_1_bit_with_mask")].data,
                       Len(elements[ChildOfType(p, resolution, "icon_1_bit_with_mask")].data)
                           \div 2 + 1,
                       Len(elements[ChildOfType(p, resolution, "icon_1_bit_with_mask")].data)))

\* the mask elements of the resolution have not been resolved
MasksUntouched(p, resolution) ==
    \A q \in IconChildrenAt(p, resolution) :
        elements[q].known_type.data_type = "icon_8_bit_mask" => Untouched(q)

\* the image has an alpha channel, with the values of band
AlphaIs(im, band) ==
    /\ im.mode \in {"RGBA", "LA"}
    /\ im.bands[Len(im.bands)] = band

C18_WitnessOneBitMask ==
    /\ last.op = "icon_image_for_resolution"
    /\ last.err = NoError
    /\ TypesAt(last.path, last.resolution) = {"icon_8_bit", "icon_1_bit_with_mask"}
    /\ image.im.mode = "RGBA"
    /\ image.im.bands[Len(image.im.bands)] = [i \in 1..256 |-> 255]

\* an RGB icon where the family holds no mask: an image without alpha
C18_WitnessNoMask ==
    /\ last.op = "icon_image_for_resolution"
    /\ last.err = NoError
    /\ TypesAt(last.path, last.resolution) = {"icon_rgb"}
    /\ image.im.mode = "RGB"
    /\ image.mask = NoImage

\* an ARGB icon beside an 8-bit mask: the mask stays unresolved
C18_WitnessOwnAlpha ==
    /\ last.op = "icon_image_for_resolution"
    /\ last.err = NoError
    /\ last.value.cls = "IconARGB"
    /\ "icon_8_bit_mask" \in TypesAt(last.path, last.resolution)
    /\ image.calls = 1
    /\ Untouched(Append(last.path, TC_s8mk))

(***************************************************************************)
(* Extraction of nested families.                                          *)
(***************************************************************************)
\* the last step extracted the nested family at last.path
Extracted == last.op = "extract_icon_family"

\* the type codes of a decoded family, in order, each with its raw body
CodesAndBodies(d) == [i \in 1..Len(d.keys) |-> <<d.keys[i], d.vals[d.keys[i]].data>>]

\* the same of the family resolved in place at path p
CodesAndBodiesAt(p) ==
    [i \in 1..Len(families[p].elements) |->
        <<elements[Append(p, families[p].elements[i])].type,
          elements[Append(p, families[p].elements[i])].data>>]

\* C19: the bytes 'icns', the big-endian 32-bit value len(b) + 8 and the
\* raw body b of a nested family decode at top level to a family with the
\* same type codes, in the same order and with the same raw bodies as the
\* nested family decoded in place.
C19_ExtractRoundTrip ==
    Extracted =>
        /\ last.data = TC_icns \o to_bytes_4_big(Len(elements[last.path].data) + 8)
                           \o elements[last.path].data
        /\ from_stream(last.data).err = NoError
        /\ CodesAndBodies(from_stream(last.data).elements) = CodesAndBodiesAt(last.path)

\* a nested family of two elements, one of them with a body
C19_Witness ==
    /\ Extracted
    /\ Len(families[last.path].elements) = 2
    /\ \E i \in 1..2 : CodesAndBodiesAt(last.path)[i][2] # <<>>

\* a nested family inside a nested family
C19_WitnessDeep ==
    /\ Extracted
    /\ Len(last.path) = 2
    /\ Len(families[last.path].elements) = 1

(***************************************************************************)
(* The specification of the registry: the module registers its types in    *)
(* order, then constructors are called with registered and with new type   *)
(* codes, data types and resolutions.                                      *)
(***************************************************************************)
NewTypeCodes == {<<122, 122, 122, 122>>, <<122, 122, 122, 121>>, <<122, 122, 122, 120>>,
                 <<105, 115, 51, 50>>}

NewTypes ==
    {[typecode |-> t, data_type |-> "info_dictionary", icon |-> FALSE,
      resolution |-> NoResolution] : t \in NewTypeCodes}
        \cup {[typecode |-> t, data_type |-> "icon_rgb", icon |-> TRUE, resolution |-> r] :
                 t \in NewTypeCodes, r \in {<<16, 16, 1>>, <<64, 64, 1>>}}

InitRegistry ==
    /\ stream = <<>>
    /\ pos = 0
    /\ status = "new"
    /\ elements = <<>>
    /\ families = <<>>
    /\ last = NoAccess
    /\ nobj = 0
    /\ rle = NoPackbits
    /\ image = NoIcon
    /\ registry = NoRegistry
    /\ threads = NoThreads

NextRegistry ==
    \/ ModuleRegistration
    \/ \E self \in NewTypes : Register(self)

SpecRegistry == InitRegistry /\ [][NextRegistry]_vars

(***************************************************************************)
(* The registry.                                                           *)
(***************************************************************************)
\* the descriptors the registry holds, in any of its maps
Descriptors ==
    {registry.by_typecode[t] : t \in DOMAIN registry.by_typecode}
        \cup UNION {registry.by_data_type[dt] : dt \in DOMAIN registry.by_data_type}
        \cup {registry.by_data_type_and_resolution[k] :
                 k \in DOMAIN registry.by_data_type_and_resolution}

\* a constructor call after the import was rejected by an assertion
Rejected ==
    /\ last.op \in {"KnownElementType", "KnownIconType"}
    /\ last.err = "AssertionError"

\* C20: once the module is imported the registry holds at most one
\* descriptor per 4-byte type code and, for the types that bear an image,
\* at most one descriptor per pair of category and resolution; a
\* registration that would violate either is rejected by an assertion and
\* leaves the earlier descriptor in place.
C20_RegistryInvariant ==
    registry.n = Len(KnownTypes) =>
        /\ \A d1, d2 \in Descriptors : d1.typecode = d2.typecode => d1 = d2
        /\ \A d1, d2 \in Descriptors :
               (d1.icon /\ d2.icon /\ d1.data_type = d2.data_type
                    /\ d1.resolution = d2.resolution) => d1 = d2
        /\ \A self \in NewTypes :
               /\ self.typecode \in RegisteredTypeCodes
                      => registry.by_typecode[self.typecode] = by_typecode_get(self.typecode)
               /\ (last.value = self /\ last.err = NoError)
                      => /\ self.typecode \notin RegisteredTypeCodes
                         /\ self.icon => registry.by_data_type_and_resolution[
                                <<self.data_type, self.resolution>>] = self

\* at the end of the import the registry holds the descriptors of the
\* module, no two with one type code or with one category and resolution
C20_ImportedRegistry ==
    /\ last.op = "module" => last.err = NoError
    /\ (registry.n = Len(KnownTypes) /\ last.op = "module") =>
           /\ registry = Imported
           /\ Descriptors = {KnownTypes[i] : i \in 1..Len(KnownTypes)}
           /\ \A i, j \in 1..Len(KnownTypes) :
                  (\/ KnownTypes[i].typecode = KnownTypes[j].typecode
                   \/ /\ KnownTypes[i].icon /\ KnownTypes[j].icon
                      /\ KnownTypes[i].data_type = KnownTypes[j].data_type
                      /\ KnownTypes[i].resolution = KnownTypes[j].resolution) => i = j

\* a constructor call that an assertion rejects leaves every descriptor
\* that was registered in its place, under its type code and under its
\* pair of category and resolution
C20_RejectionKeepsEarlier ==
    [][(last'.op \in {"KnownElementType", "KnownIconType"}
            /\ last'.err = "AssertionError") =>
           /\ registry'.by_data_type_and_resolution = registry.by_data_type_and_resolution
           /\ \A t \in DOMAIN registry.by_typecode :
                  registry'.by_typecode[t] = registry.by_typecode[t]]_vars

\* a new type code with the category and the resolution of 'is32': the
\* constructor raises, and the type code is registered
C20_Witness ==
    /\ Rejected
    /\ last.value.typecode = <<122, 122, 122, 122>>
    /\ last.value.icon
    /\ last.value.resolution = <<16, 16, 1>>
    /\ registry.by_typecode[<<122, 122, 122, 122>>] = last.value
    /\ registry.by_data_type_and_resolution[<<"icon_rgb", <<16, 16, 1>>>>].typecode
           = <<105, 115, 51, 50>>

(***************************************************************************)
(* C21: the body of an Icon Composer version element.                      *)
(***************************************************************************)
\* the last step read element.parsed of the 'icnV' element at path p
VersionAccessed(p) ==
    /\ p # <<>>
    /\ last.op = "parsed"
    /\ last.path = p
    /\ elements[p].type = TC_icnV

\* C21: resolving an 'icnV' element succeeds only when its body is exactly
\* 4 bytes long; a shorter body fails, and a longer body fails as well
C21_ExactlyFourBytes ==
    \A p \in DOMAIN elements :
        VersionAccessed(p) => (last.err = NoError <=> Len(elements[p].data) = 4)

\* what holds of the body's length: a body of fewer than 4 bytes fails with
\* the EOFError of the read; a body of 4 bytes or more resolves, the version
\* taken from its first 4 bytes and the bytes after them unused
C21_ShortRejectedLongAccepted ==
    \A p \in DOMAIN elements :
        VersionAccessed(p) =>
            IF Len(elements[p].data) < 4
            THEN last.err = "EOFError" /\ elements[p].parsed = Unset
            ELSE /\ last.err = NoError
                 /\ last.value.cls = "IconComposerVersion"
                 /\ last.value.version = SubSeq(elements[p].data, 1, 4)

\* an 'icnV' element with a body of 5 bytes was resolved
C21_LongAccepted ==
    \E p \in DOMAIN elements :
        /\ VersionAccessed(p)
        /\ Len(elements[p].data) = 5
        /\ last.err = NoError
        /\ elements[p].parsed.cls = "IconComposerVersion"

(***************************************************************************)
(* C22: the body of a nested family.                                       *)
(***************************************************************************)
\* the last step read element.parsed of the nested family element at path p
FamilyAccessed(p) ==
    /\ p # <<>>
    /\ last.op = "parsed"
    /\ last.path = p
    /\ IsFamilyType(p)

\* C22: resolving a nested family element yields a family only when its
\* body is not empty and complete children fill it; a zero-length body is
\* an error, and so is a body its children consume in part
C22_NonEmptyAndConsumed ==
    /\ \A p \in DOMAIN families :
          p # <<>> => Len(elements[p].data) > 0 /\ Scan(elements[p].data, 0) = "ok"
    /\ \A p \in DOMAIN elements :
          (FamilyAccessed(p)
              /\ (Len(elements[p].data) = 0 \/ Scan(elements[p].data, 0) # "ok"))
          => last.err # NoError /\ elements[p].parsed = Unset

\* what holds of a nested family body: a body its children consume in part
\* fails with the error of reading the child that is not complete; a body
\* that complete children fill resolves to the family of these children,
\* and the empty body resolves to the family of no elements
C22_EmptyAcceptedPartialRejected ==
    \A p \in DOMAIN elements :
        FamilyAccessed(p) =>
            IF Scan(elements[p].data, 0) # "ok"
            THEN /\ last.err \in {"EOFError", "ValueError"}
                 /\ elements[p].parsed = Unset
                 /\ p \notin DOMAIN families
            ELSE /\ last.err = NoError
                 /\ last.value.cls = "IconFamily"
                 /\ p \in DOMAIN families
                 /\ Len(families[p].elements)
                        = Len(FirstAppearances(RefChildren(elements[p].data, 0), <<>>))

\* a nested family element with a zero-length body was resolved to a family
\* of no elements
C22_EmptyAccepted ==
    \E p \in DOMAIN elements :
        /\ FamilyAccessed(p)
        /\ elements[p].data = <<>>
        /\ last.err = NoError
        /\ p \in DOMAIN families
        /\ families[p].elements = <<>>

(***************************************************************************)
(* C23: corrupt elements below the top-level family.                       *)
(***************************************************************************)
\* the type code t is registered as an icon family
IsFamilyCode(t) == by_typecode_get(t).data_type = "icon_family"

\* complete children fill the family body s, and the body of every child
\* that is a family, at every depth
RECURSIVE Sound(_)
Sound(s) ==
    /\ Scan(s, 0) = "ok"
    /\ \A i \in 1..Len(RefChildren(s, 0)) :
          IsFamilyCode(RefChildren(s, 0)[i].type) => Sound(RefChildren(s, 0)[i].data)

\* C23 as stated: when an element at any depth below the top-level family
\* is structurally corrupt, from_stream fails; it returns no family that
\* holds a corrupt descendant
C23_NoCorruptDescendant ==
    (Decoded /\ IcnsAtTop /\ ~Sound(TopBody)) => status # "ok" /\ families = <<>>

\* C23: a corrupt child of a family makes the resolution of that family
\* fail: from_stream for the top-level family, the access to parsed for a
\* nested one, which then yields no family and no element; no family that
\* was resolved holds a corrupt child.  The body of a nested family is not
\* read before its parsed is accessed: from_stream returns the family of a
\* stream whose top-level element ends the stream and is filled by complete
\* children, and parsed the family of such a body, whatever the bodies of
\* the families below hold.
C23_CorruptionFoundOnResolution ==
    /\ \A p \in DOMAIN families : Scan(elements[p].data, 0) = "ok"
    /\ (Decoded /\ IcnsAtTop /\ Scan(TopBody, 0) # "ok")
       => status \in {"EOFError", "ValueError"} /\ families = <<>>
    /\ (Decoded /\ IcnsAtTop /\ Scan(TopBody, 0) = "ok" /\ LenAt(stream, 0) = Len(stream))
       => status = "ok" /\ <<>> \in DOMAIN families
    /\ \A p \in DOMAIN elements :
          FamilyAccessed(p) =>
              IF Scan(elements[p].data, 0) # "ok"
              THEN /\ last.err \in {"EOFError", "ValueError"}
                   /\ p \notin DOMAIN families
                   /\ \A q \in DOMAIN elements :
                          Len(q) <= Len(p) \/ SubSeq(q, 1, Len(p)) # p
              ELSE last.err = NoError /\ p \in DOMAIN families

\* from_stream returned the family of a stream in which a family two levels
\* below the top holds a corrupt child; the family between them was
\* resolved, and the access to the parsed of the innermost one raised
C23_Witness ==
    \E p \in DOMAIN elements :
        /\ Len(p) = 2
        /\ status = "ok"
        /\ ~Sound(TopBody)
        /\ Front(p) \in DOMAIN families
        /\ FamilyAccessed(p)
        /\ Scan(elements[p].data, 0) # "ok"
        /\ last.err \in {"EOFError", "ValueError"}
        /\ p \notin DOMAIN families

(***************************************************************************)
(* The specification of decodes one after the other: a buffer is decoded,  *)
(* payloads are resolved and icons and masks looked up in the families,    *)
(* then another buffer is decoded and used likewise.                       *)
(***************************************************************************)
\* the buffers decoded first: elements of unknown type, a nested family,
\* an icon and a mask
FirstBuffers ==
    {WellFormed(TC_icns, WellFormed(TC_zzzz, <<>>)
                             \o WellFormed(TC_tile, WellFormed(TC_zzzz, BodyOf(1)))),
     WellFormed(TC_icns, WellFormed(TC_ics8, IconBody(TC_ics8))
                             \o WellFormed(TC_s8mk, IconBody(TC_s8mk)))}

\* the buffers decoded after them
SecondBuffers ==
    {WellFormed(TC_icns, WellFormed(TC_zzzz, BodyOf(2)) \o WellFormed(TC_ics8, IconBody(TC_ics8))),
     WellFormed(TC_tile, WellFormed(TC_zzzz, <<>>))}

\* the resolutions asked for between the decodes
DecodeResolutions == {<<16, 16, 1>>}

\* io.BytesIO(s): the program takes another buffer to decode; the family of
\* the buffer before is dropped
BytesIO(s) ==
    /\ stream \in FirstBuffers
    /\ status # "new"
    /\ stream' = s
    /\ pos' = 0
    /\ status' = "new"
    /\ elements' = <<>>
    /\ families' = <<>>
    /\ last' = [op |-> "BytesIO", path |-> <<>>, err |-> NoError, value |-> Unset]
    /\ UNCHANGED <<threads, nobj, rle, image, registry>>

InitDecodes ==
    /\ stream \in FirstBuffers
    /\ pos = 0
    /\ status = "new"
    /\ elements = <<>>
    /\ families = <<>>
    /\ last = NoAccess
    /\ nobj = 0
    /\ rle = NoPackbits
    /\ image = NoIcon
    /\ registry = Imported
    /\ threads = NoThreads

NextDecodes ==
    \/ FromStream
    \/ \E p \in DOMAIN elements : Parsed(p)
    \/ \E p \in DOMAIN families, resolution \in DecodeResolutions :
           IconElementForResolution(p, resolution)
    \/ \E p \in DOMAIN families, resolution \in DecodeResolutions :
           MaskElementForResolution(p, resolution)
    \/ \E s \in SecondBuffers : BytesIO(s)

SpecDecodes == InitDecodes /\ [][NextDecodes]_vars

(***************************************************************************)
(* C24: the registry is only read.                                         *)
(***************************************************************************)
\* C24: no decode, no resolution of a payload and no lookup of an icon or
\* a mask adds, removes or changes an entry of by_typecode, by_data_type or
\* by_data_type_and_resolution: the registry stays as the import left it.
\* So a buffer decoded after another yields the tree it yields alone: every
\* element has the descriptor the import registered for its type code (none
\* for a type code that is not registered), and every family holds what
\* the children in its body make.
C24_RegistryReadOnly ==
    /\ registry = Imported
    /\ \A p \in DOMAIN elements :
          p # <<>> => elements[p].known_type = by_typecode_get(elements[p].type)
    /\ \A p \in DOMAIN families :
          FamilyOfChildren(p, families[p].elements, RefChildren(elements[p].data, 0))
    /\ (Decoded /\ IcnsAtTop /\ Scan(TopBody, 0) = "ok" /\ LenAt(stream, 0) = Len(stream))
       => status = "ok"

\* a second buffer was decoded after a payload of the first family had been
\* resolved, and its family holds an element of a type code that is not
\* registered
C24_Witness ==
    /\ stream \in SecondBuffers
    /\ status = "ok"
    /\ nobj > 0
    /\ \E p \in DOMAIN elements :
          /\ p # <<>>
          /\ elements[p].type \notin RegisteredTypeCodes
          /\ elements[p].known_type = None

\* after a second decode, a nested family was resolved and an icon looked
\* up in the family
C24_WitnessLookup ==
    /\ stream \in SecondBuffers
    /\ last.op = "icon_element_for_resolution"
    /\ last.err = NoError
    /\ nobj > 0

(***************************************************************************)
(* The specification of the extraction of icons: a family of icon elements *)
(* is read, then its bitmap icons without alpha are extracted.             *)
(***************************************************************************)
NextExtract ==
    \/ FromStream
    \/ \E q \in DOMAIN elements : ExtractIcon(q)

SpecExtract == InitLookup /\ [][NextExtract]_vars

(***************************************************************************)
(* C25: extraction of an icon whose family holds no mask.                  *)
(***************************************************************************)
\* the last step extracted the icon last.value, and the family holds no
\* mask at its resolution
ExtractedWithoutMask ==
    /\ last.op = "extract_icon"
    /\ \A dt \in TypesAt(last.path, last.resolution) : ~IsMaskCategory(dt)

\* C25: the extraction of a 4-bit, 8-bit or RGB icon whose family holds no
\* mask at its resolution does not fail: the missing mask is taken as no
\* mask and the image has no alpha channel
C25_MissingMaskCaught ==
    ExtractedWithoutMask =>
        /\ last.err = NoError
        /\ image.mask = NoImage
        /\ image.im.mode \in {"P", "RGB"}

\* what holds of the extraction of such an icon: where the family holds a
\* mask at the resolution the icon is extracted with the mask as its alpha
\* channel; where it holds none, the KeyError of the lookup ends the
\* extraction and there is no image
C25_MissingMaskAborts ==
    last.op = "extract_icon" =>
        IF \E dt \in TypesAt(last.path, last.resolution) : IsMaskCategory(dt)
        THEN /\ last.err = NoError
             /\ AlphaIs(image.im, BestMaskBand(last.path, last.resolution))
        ELSE /\ last.err = "KeyError"
             /\ image.im = NoImage

\* the extraction of an RGB icon from a family that holds only this icon
\* ended with KeyError
C25_Aborted ==
    /\ ExtractedWithoutMask
    /\ last.value.cls = "IconRGB"
    /\ TypesAt(last.path, last.resolution) = {"icon_rgb"}
    /\ last.err = "KeyError"

(***************************************************************************)
(* C26: what the lookups leave of the family.                              *)
(***************************************************************************)
\* the family at path p as IconFamily.from_ks constructed it from the
\* struct of its element
AsConstructed(p) == IconFamily_init(IconFamily_from_ks(elements[p].m_data_parsed))

\* C26: after any lookups of icon and mask elements, failed or not, for
\* resolutions the family holds or not, the elements of the family and its
\* index by resolution and type, the set of its keys included, are what
\* they were right after construction
C26_LookupsArePureReads ==
    \A p \in DOMAIN families : families[p] = AsConstructed(p)

\* what holds of the family after lookups: its elements are as constructed
\* and so is the map of types under every resolution that was indexed at
\* construction; every resolution that was looked up is a key of the
\* index, with an empty map of types when the family holds no icon of it
C26_LookupsAddEmptyEntries ==
    \A p \in DOMAIN families :
        /\ families[p].elements = AsConstructed(p).elements
        /\ \A r \in DOMAIN AsConstructed(p).elements_by_resolution_and_type :
              /\ r \in DOMAIN families[p].elements_by_resolution_and_type
              /\ families[p].elements_by_resolution_and_type[r]
                     = AsConstructed(p).elements_by_resolution_and_type[r]
        /\ \A r \in DOMAIN families[p].elements_by_resolution_and_type :
              r \notin DOMAIN AsConstructed(p).elements_by_resolution_and_type
                  => /\ r \in LookupResolutions
                     /\ families[p].elements_by_resolution_and_type[r] = EmptyDict
        /\ (last.op \in {"icon_element_for_resolution", "mask_element_for_resolution"}
               /\ last.path = p)
              => last.resolution \in DOMAIN families[p].elements_by_resolution_and_type

\* a lookup of a resolution the family holds no icon of has raised
\* KeyError, and the resolution is now a key of the index
C26_KeyAdded ==
    /\ last.op = "icon_element_for_resolution"
    /\ last.err = "KeyError"
    /\ last.resolution \notin DOMAIN AsConstructed(last.path).elements_by_resolution_and_type
    /\ last.resolution \in DOMAIN families[last.path].elements_by_resolution_and_type
    /\ DOMAIN AsConstructed(last.path).elements_by_resolution_and_type # {}

(***************************************************************************)
(* The specification of the dispatch: a family that holds one element of a *)
(* registered type is read, then the element is resolved.                  *)
(***************************************************************************)
\* the length of a bitmap of the descriptor kt: two 1-bit planes, 4 bits or
\* 8 bits a pixel
BitmapLength(kt) ==
    CASE kt.data_type = "icon_1_bit_with_mask" ->
             2 * ((kt.resolution[1] * kt.resolution[2]) \div 8)
      [] kt.data_type = "icon_4_bit" -> (kt.resolution[1] * kt.resolution[2]) \div 2
      [] kt.data_type \in {"icon_8_bit", "icon_8_bit_mask"} ->
             kt.resolution[1] * kt.resolution[2]
      [] OTHER -> 8

\* bodies of an element of the descriptor kt: empty, 4 zero bytes, the
\* 'ARGB' signature, and zero bytes of the length of its bitmap
RegisteredBodies(kt) == {<<>>, Zeros(4), <<65, 82, 71, 66>>, Zeros(BitmapLength(kt))}

RegisteredStreams ==
    UNION {{WellFormed(TC_icns, WellFormed(KnownTypes[i].typecode, b)) :
               b \in RegisteredBodies(KnownTypes[i])} : i \in 1..Len(KnownTypes)}

InitDispatch ==
    /\ stream \in RegisteredStreams
    /\ pos = 0
    /\ status = "new"
    /\ elements = <<>>
    /\ families = <<>>
    /\ last = NoAccess
    /\ nobj = 0
    /\ rle = NoPackbits
    /\ image = NoIcon
    /\ registry = Imported
    /\ threads = NoThreads

NextDispatch ==
    \/ FromStream
    \/ \E p \in DOMAIN elements : Parsed(p)

SpecDispatch == InitDispatch /\ [][NextDispatch]_vars

(***************************************************************************)
(* C27: the registry and the dispatch.                                     *)
(***************************************************************************)
\* the payload class that a category of the registry names
VariantOf(data_type) ==
    CASE data_type = "icon_family" -> "IconFamily"
      [] data_type = "table_of_contents" -> "TableOfContents"
      [] data_type = "icon_composer_version" -> "IconComposerVersion"
      [] data_type = "info_dictionary" -> "InfoDictionary"
      [] data_type = "icon_1_bit_with_mask" -> "Icon1BitAndMask"
      [] data_type = "icon_4_bit" -> "Icon4Bit"
      [] data_type = "icon_8_bit" -> "Icon8Bit"
      [] data_type = "icon_rgb" -> "IconRGB"
      [] data_type = "icon_8_bit_mask" -> "Icon8BitMask"
      [] data_type = "icon_argb" -> "IconARGB"
      [] data_type \in {"icon_png_jp2_rgb", "icon_png_jp2"} -> "IconPNGOrJPEG2000"
      [] OTHER -> "None"

\* the payload agrees with the descriptor kt: it is of the class that the
\* category names and, for a type that bears an image, of the resolution
\* of the descriptor
Agrees(payload, kt) ==
    /\ payload.cls = VariantOf(kt.data_type)
    /\ kt.icon => payload.resolution = kt.resolution

\* the last step resolved the element at path p, of a registered type
RegisteredResolved(p) ==
    /\ p # <<>>
    /\ last.op = "parsed"
    /\ last.path = p
    /\ last.err = NoError
    /\ elements[p].type \in RegisteredTypeCodes

\* C27: for every registered type code, the payload that resolving an
\* element of the type produces is of the variant that the category of its
\* descriptor names, and for the types that bear an image it has the
\* resolution of the descriptor
C27_RegistryAgreesWithDispatch ==
    \A p \in DOMAIN elements :
        RegisteredResolved(p) => Agrees(last.value, elements[p].known_type)

\* the dispatch builds a struct, and parsed a payload of it, from one of
\* the bodies of the descriptor kt
Resolvable(kt) ==
    \E b \in RegisteredBodies(kt) :
        /\ DataStruct(kt.typecode, b).err = NoError
        /\ ParsedFromStruct(DataStruct(kt.typecode, b).struct, 1) # Unset

\* what holds of the two tables: every registered type code resolves with
\* some body, no element of a registered type falls to the default branch
\* of the dispatch, and the payload agrees with the
\* descriptor for every registered type code but 'icnV', whose descriptor
\* has the category of a table of contents and whose payload is an Icon
\* Composer version
C27_AgreesButForVersion ==
    \A p \in DOMAIN elements :
        /\ p # <<>> => Resolvable(by_typecode_get(elements[p].type))
        /\ (p # <<>> /\ last.op = "parsed" /\ last.path = p
               /\ elements[p].type \in RegisteredTypeCodes)
           => last.err # "AssertionError"
        /\ RegisteredResolved(p) =>
               IF elements[p].type = TC_icnV
               THEN /\ elements[p].known_type.data_type = "table_of_contents"
                    /\ last.value.cls = "IconComposerVersion"
               ELSE Agrees(last.value, elements[p].known_type)

\* an 'icnV' element was resolved to an Icon Composer version
C27_VersionDisagrees ==
    \E p \in DOMAIN elements :
        /\ RegisteredResolved(p)
        /\ elements[p].type = TC_icnV
        /\ last.value.cls = "IconComposerVersion"
        /\ elements[p].known_type = by_typecode_get(TC_icnV)

\* an element of the type with the largest resolution was resolved
C27_LargestResolved ==
    \E p \in DOMAIN elements :
        /\ RegisteredResolved(p)
        /\ elements[p].known_type.icon
        /\ last.value.resolution = <<512, 512, 2>>

(***************************************************************************)
(* The specification of the parser objects: the root element is read, then *)
(* data_parsed is accessed on it and on the elements of the families that  *)
(* were built.                                                             *)
(***************************************************************************)
NextKs ==
    \/ FromIo
    \/ \E p \in DOMAIN elements : DataParsed(p)

SpecKs == Init /\ [][NextKs]_vars

(***************************************************************************)
(* C28: a failed resolution, accessed again.                               *)
(***************************************************************************)
\* this step is an access to data_parsed of the struct at p that follows an
\* access to it
Retried(p) ==
    /\ last.op = "data_parsed"
    /\ last.path = p
    /\ last'.op = "data_parsed"
    /\ last'.path = p
    /\ elements'[p].accesses = elements[p].accesses + 1

\* C28: when an access to the resolved payload of an element raises, the
\* next access to the same element raises as well; it never returns a
\* payload that the access before rejected
C28_FailureRepeats ==
    [][\A p \in DOMAIN elements :
           (Retried(p) /\ last.err # NoError) => last'.err # NoError]_vars

\* what holds of a repeated access: the error of the constructor of the
\* struct is raised again, nothing being cached; the error of the check
\* that closes data_parsed is raised once, and the next access returns the
\* struct that was cached before the check
C28_ConstructorFailureRepeats ==
    [][\A p \in DOMAIN elements :
           (Retried(p) /\ last.err # NoError) =>
               IF last.err = "ValidationExprError(data_parsed)"
               THEN /\ last'.err = NoError
                    /\ last'.value = elements[p].m_data_parsed
                    /\ elements[p].m_data_parsed # Unset
               ELSE /\ last'.err = last.err
                    /\ elements'[p].m_data_parsed = Unset]_vars

\* data_parsed of the root element of a stream with bytes after it has
\* raised, and the next access has returned the family struct
C28_RetryReturned ==
    /\ last.op = "data_parsed"
    /\ last.path = <<>>
    /\ last.err = NoError
    /\ elements[<<>>].accesses = 2
    /\ ~is_eof(stream, pos)
    /\ last.value.cls = "IconFamilyData"

\* data_parsed of a struct has raised the error of its constructor twice
C28_RetryRaised ==
    \E p \in DOMAIN elements :
        /\ last.op = "data_parsed"
        /\ last.path = p
        /\ last.err = "EOFError"
        /\ elements[p].accesses = 2

\* of the elements of a decoded family (specification Spec): the enclosing
\* stream of such an element is at its end, so the access to parsed fails
\* only with the error of the constructor or with the AssertionError of an
\* unhandled struct; then no payload is kept and the next access to the
\* element raises the same error
C28_ParsedFailureRepeats ==
    [][\A p \in DOMAIN elements :
           (/\ last.op = "parsed" /\ last.path = p /\ last.err # NoError
            /\ last'.op = "parsed" /\ last'.path = p
            /\ elements'[p].accesses = elements[p].accesses + 1)
           => /\ last'.err = last.err
              /\ last.err # "ValidationExprError(data_parsed)"
              /\ elements'[p].parsed = Unset]_vars


(***************************************************************************)
(* Two threads and one element: a family of one child is decoded, and two  *)
(* threads then access parsed of that child.                               *)
(***************************************************************************)
\* the bodies of the shared element: an Icon Composer version, an ARGB icon
\* with its signature, a PNG icon, a 1-bit icon with its mask, and a version
\* that is a byte short
ThreadKids ==
    {WellFormed(TC_icnV, BodyOf(4)), WellFormed(TC_icnV, BodyOf(3)),
     WellFormed(TC_ic04, <<65, 82, 71, 66, 7, 9>>),
     WellFormed(TC_icp4, BodyOf(3)),
     WellFormed(TC_ics1, BodyOf(8) \o Zeros(24) \o Zeros(24) \o BodyOf(8))}

ThreadStreams == {WellFormed(TC_icns, k) : k \in ThreadKids}

InitThreads ==
    /\ stream \in ThreadStreams
    /\ pos = 0
    /\ status = "new"
    /\ elements = <<>>
    /\ families = <<>>
    /\ last = NoAccess
    /\ nobj = 0
    /\ rle = NoPackbits
    /\ image = NoIcon
    /\ registry = Imported
    /\ threads = [path |-> <<SubSeq(stream, 9, 12)>>, overlap |-> FALSE,
                  t |-> <<NewThread, NewThread>>]

NextThreads == FromStream \/ \E t \in 1..2 : Thread(t)

SpecThreads == InitThreads /\ [][NextThreads]_vars

\* both threads have left parsed
ThreadsDone ==
    /\ threads.t # <<>>
    /\ \A t \in 1..2 : threads.t[t].pc = "done"

\* the element the threads share
Shared == elements[threads.path]

\* a single-threaded access to the shared element returns a payload
SingleThreaded(el) ==
    /\ DataStruct(el.type, el.data).err = NoError
    /\ ParsedFromStruct(DataStruct(el.type, el.data).struct, 0) # Unset

\* x is the payload a single-threaded access to el returns, whichever
\* object it is
SinglePayload(el, x) ==
    /\ x # Unset
    /\ [x EXCEPT !.obj = 0] = ParsedFromStruct(DataStruct(el.type, el.data).struct, 0)

\* every thread has the single-threaded payload, and the stream of the
\* element's data is where from_ks left it
AsSingleThreaded(el) ==
    /\ \A t \in 1..2 : /\ threads.t[t].err = NoError
                       /\ SinglePayload(el, threads.t[t].value)
    /\ el.io_pos = Len(el.data)

\* C29: when two threads make the first access to parsed of one element
\* with no synchronization, under every interleaving each thread has the
\* payload of a single-threaded access, neither fails on a well-formed
\* element, and the stream of the element's data ends where it was.
C29_UnsynchronizedAccessSafe ==
    (ThreadsDone /\ SingleThreaded(Shared)) => AsSingleThreaded(Shared)

\* C29, amended: when the two accesses are serialized, one thread leaving
\* parsed before the other enters it, each thread has the payload of a
\* single-threaded access, neither fails on a well-formed element, and the
\* stream of the element's data ends where it was.
C29_SerializedAccessSafe ==
    (ThreadsDone /\ ~threads.overlap /\ SingleThreaded(Shared))
        => AsSingleThreaded(Shared)

\* two serialized accesses to a well-formed element with a body have ended
C29_Witness ==
    /\ ThreadsDone
    /\ ~threads.overlap
    /\ SingleThreaded(Shared)
    /\ Shared.data # <<>>
    /\ Shared.parsed # Unset


(***************************************************************************)
(* Termination and size of the decompression.                              *)
(***************************************************************************)
\* the bytes of the input that chunk i of cs took: from the end of the
\* chunk before it, or from the start, to its own end
Consumed(cs, i) == cs[i].pos - (IF i = 1 THEN 0 ELSE cs[i - 1].pos)

\* the sum over the chunks of tag - 125 for a tag of 128 and more, and of
\* tag + 1 for any other
RECURSIVE SumOverChunks(_)
SumOverChunks(cs) ==
    IF cs = <<>> THEN 0
    ELSE (IF Head(cs).tag >= 128 THEN Head(cs).tag - 125 ELSE Head(cs).tag + 1)
             + SumOverChunks(Tail(cs))

\* the chunks read of the compressed bytes before the end or the error
ChunksRead == chunks(rle.compressed).chunks

\* C30: the access to uncompressed ends on every input, with the bytes or
\* with an error; every chunk read took at least 2 bytes of the input, so
\* at most len(input)/2 chunks are read; the length of the output is the
\* sum over the chunks of tag - 125 for a repeat and tag + 1 for a literal,
\* and so at most 65 times the length of the input.
C30_TerminatesWithinBounds ==
    rle.accesses > 0 =>
        /\ rle.has_uncompressed \/ rle.err # NoError
        /\ \A i \in 1..Len(ChunksRead) : Consumed(ChunksRead, i) >= 2
        /\ 2 * Len(ChunksRead) <= Len(rle.compressed)
        /\ rle.has_uncompressed =>
              /\ rle.n_chunks = Len(ChunksRead)
              /\ 2 * rle.n_chunks <= Len(rle.compressed)
              /\ Len(rle.uncompressed) = SumOverChunks(ChunksRead)
              /\ Len(rle.uncompressed) <= 65 * Len(rle.compressed)

\* an access has returned the bytes of as many chunks as the inputs hold, a
\* literal of one byte and the longest repeat among them, the output
\* longer than the input
C30_Witness ==
    /\ rle.has_uncompressed
    /\ rle.n_chunks = MaxChunks
    /\ \E i \in 1..Len(ChunksRead) : ChunksRead[i].tag = 0 /\ Consumed(ChunksRead, i) = 2
    /\ \E i \in 1..Len(ChunksRead) : ChunksRead[i].tag = 255
    /\ Len(rle.uncompressed) > Len(rle.compressed)

\* an access has ended with an error after reading a chunk
C30_WitnessError ==
    /\ rle.accesses > 0
    /\ rle.err # NoError
    /\ rle.n_chunks > 0

====
